---- MODULE Spec2Model ----
(***************************************************************************)
(* Photosynthesis limiting-factors model: the factor normalizers and the   *)
(* rate law (photosynthesisModel.js), the limiting-factor analyzer and    *)
(* analyzeAllFactors (limitingFactor.js), validateChange                   *)
(* (recommendationEngine.js), and the day-by-day growth simulators with    *)
(* compareScenarios and analyzeGrowthEfficiency (timeLapseSimulation.js).  *)
(*                                                                         *)
(* Numbers.  The program computes with IEEE doubles.  Here a dimensionless *)
(* quantity x (a normalized factor, a rate, the stress accumulator) is the *)
(* integer round(x * SCALE), and a biomass of b grams is the integer       *)
(* round(b * SCALE).  Raw inputs (light, co2, temperature, days) are       *)
(* integers.  Comparisons and thresholds are taken at this resolution.     *)
(***************************************************************************)
EXTENDS Integers, Sequences, FiniteSets, TLC

VARIABLES
  \* the rate calculator as the page drives it: the raw inputs and the
  \* RateResult of the last evaluation, and those of the evaluation before
  conditions, photoResult, prevConditions, prevResult, changedFactor,
  \* the limiting-factor analyzer: the NormalizedFactors passed to
  \* identifyLimitingFactor and the report it returned
  normalizedFactors, limiting,
  \* validateChange: its four arguments and what it returned
  validateArgs, validateResult,
  \* the growth simulator: the arguments of the running call, the locals of
  \* its day loop (day, cumulativeGrowth, cumulativeStress, results) and the
  \* position of the call
  simArgs, day, cumulativeGrowth, cumulativeStress, results, pc,
  \* what analyzeGrowthEfficiency returned for the results of the call
  analysis,
  \* a second call of a simulator in progress at the same time: its
  \* arguments, its own locals and its position
  simArgs2, day2, cumulativeGrowth2, cumulativeStress2, results2, pc2,
  \* compareScenarios: its arguments and what it returned
  compareArgs, comparison,
  \* analyzeAllFactors: the raw values it is given and what it returned
  rawValues, factorAnalysis,
  \* calculatePhotosynthesisRate called with arbitrary JavaScript values:
  \* the arguments and the outcome of the call
  callArgs, callOutcome,
  \* the adapters of photosynthesisLogic.js: the inputs, the name returned
  \* by detectLimitingFactor, the object generateRecommendation returned
  \* inside getRecommendation and the text getRecommendation returned
  adapterArgs, detectedFactor, recommended, recommendationText,
  \* the Simulator page: the three inputs, the values the recompute effect
  \* sets, the points of the graph, and the dependency array of the last
  \* run of the effect
  pageInputs, computed, graphData, effectDeps,
  \* the TimeLapse component: its props active and environmentalFactors,
  \* its state, and whether the timer of the playback effect is set
  active, environmentalFactors, timeScale, isPlaying, currentDay,
  simulationData, interval

SCALE == 10^4

\* Resolution at which the power series of Math.exp is summed.
ESCALE == 10^6

(***************************************************************************)
(* Bounds of the model.                                                    *)
(***************************************************************************)
\* light is drawn from 200 * (-1 .. MaxLightIdx)
MaxLightIdx == 5
\* co2 is drawn from 200 * (-1 .. MaxCO2Idx)
MaxCO2Idx == 4
\* temperature is drawn from 5 * (-1 .. MaxTempIdx)
MaxTempIdx == 10
\* normalized factors handed to the analyzer are drawn from i / LevelCount
LevelCount == 20
\* days is drawn from 0 .. MaxDays
MaxDays == 3
\* initialBiomass is drawn from 50 * (0 .. MaxBiomassIdx) grams
MaxBiomassIdx == 2
\* the recompute effect of the page runs while the graph has fewer points
MaxGraphPoints == 2

Lights == {200 * i : i \in -1..MaxLightIdx}
CO2s == {200 * i : i \in -1..MaxCO2Idx}
Temperatures == {5 * i : i \in -1..MaxTempIdx}

FactorNames == {"light", "co2", "temperature"}

Conditions == [light : Lights, co2 : CO2s, temperature : Temperatures]

Levels == {(SCALE * i) \div LevelCount : i \in 0..LevelCount}

DayCounts == 0..MaxDays

InitialBiomasses == {50 * SCALE * i : i \in 0..MaxBiomassIdx}

(***************************************************************************)
(* Arithmetic helpers.                                                     *)
(***************************************************************************)
Min2(a, b) == IF a <= b THEN a ELSE b

Max2(a, b) == IF a >= b THEN a ELSE b

\* Math.min of three numbers
Min3(a, b, c) == Min2(a, Min2(b, c))

\* Math.abs
Abs(a) == IF a < 0 THEN -a ELSE a

\* floor(a * n / m) for a, n >= 0 and m > 0, without forming a * n
MulDiv(a, n, m) == (a \div m) * n + ((a % m) * n) \div m

\* a / m rounded to the nearest integer, halves up (Math.round), for a >= 0
RoundDiv(a, m) == (2 * a + m) \div (2 * m)

\* ESCALE * (1 + x + x^2/2! + ...) for x = n / d >= 0: the terms from the
\* k-th on, the k-th being term.
RECURSIVE ExpSeries(_, _, _, _)
ExpSeries(n, d, k, term) ==
  IF term = 0 THEN 0
  ELSE term + ExpSeries(n, d, k + 1, MulDiv(term, n, d * k))

\* Math.exp(-n / d) for n >= 0, d > 0, in SCALE units
MathExpNeg(n, d) ==
  LET e == ExpSeries(n, d, 1, ESCALE) \div (ESCALE \div SCALE)
  IN  RoundDiv(SCALE * SCALE, e)

(***************************************************************************)
(* photosynthesisModel.js                                                  *)
(***************************************************************************)
OPTIMAL_VALUES == [light |-> 800, co2 |-> 400, temperature |-> 25]

TEMP_RANGE == [min |-> 0, optimal |-> 25, max |-> 45]

\* light / (light + OPTIMAL_VALUES.light * 0.3), capped at 1.0
normalizeLightFactor(light) ==
  IF light <= 0 THEN 0
  ELSE LET normalized ==
             RoundDiv(light * SCALE, light + (OPTIMAL_VALUES.light * 3) \div 10)
       IN  Min2(normalized, SCALE)

\* a variant whose ramp falls again above the optimum (optimal / co2)
normalizeCO2Factor_inhibited(co2) ==
  IF co2 <= 0 THEN 0
  ELSE LET ramp == IF co2 <= OPTIMAL_VALUES.co2
                   THEN RoundDiv(co2 * SCALE, OPTIMAL_VALUES.co2)
                   ELSE RoundDiv(OPTIMAL_VALUES.co2 * SCALE, co2)
           normalized ==
             RoundDiv(ramp * (SCALE - MathExpNeg(co2, OPTIMAL_VALUES.co2)), SCALE)
       IN  Min2(normalized, SCALE)

\* min(co2 / optimal, 1.0) * (1 - exp(-co2 / optimal)), capped at 1.0
normalizeCO2Factor(co2) ==
  IF co2 <= 0 THEN 0
  ELSE LET ramp == Min2(RoundDiv(co2 * SCALE, OPTIMAL_VALUES.co2), SCALE)
           normalized ==
             RoundDiv(ramp * (SCALE - MathExpNeg(co2, OPTIMAL_VALUES.co2)), SCALE)
       IN  Min2(normalized, SCALE)

\* a variant without the floor: 0 at or outside TEMP_RANGE
normalizeTemperatureFactor_unfloored(temperature) ==
  IF temperature <= TEMP_RANGE.min THEN 0
  ELSE IF temperature >= TEMP_RANGE.max THEN 0
  ELSE LET stdDev == 8
           d == temperature - TEMP_RANGE.optimal
       IN  MathExpNeg(d * d, 2 * stdDev * stdDev)

\* 0.05 at or outside TEMP_RANGE, else the bell curve around the optimum
normalizeTemperatureFactor(temperature) ==
  IF temperature <= TEMP_RANGE.min THEN (5 * SCALE) \div 100
  ELSE IF temperature >= TEMP_RANGE.max THEN (5 * SCALE) \div 100
  ELSE LET stdDev == 8
           d == temperature - TEMP_RANGE.optimal
       IN  MathExpNeg(d * d, 2 * stdDev * stdDev)

\* a variant that averages the three factors instead of taking the least
calculatePhotosynthesisRate_mean(light, co2, temperature) ==
  LET lightFactor == normalizeLightFactor(light)
      co2Factor == normalizeCO2Factor(co2)
      tempFactor == normalizeTemperatureFactor(temperature)
      rate == (lightFactor + co2Factor + tempFactor) \div 3
  IN  [rate |-> rate,
       factors |-> [light |-> lightFactor, co2 |-> co2Factor,
                    temperature |-> tempFactor]]

calculatePhotosynthesisRate(light, co2, temperature) ==
  LET lightFactor == normalizeLightFactor(light)
      co2Factor == normalizeCO2Factor(co2)
      tempFactor == normalizeTemperatureFactor(temperature)
      rate == Min3(lightFactor, co2Factor, tempFactor)
  IN  [rate |-> rate,
       factors |-> [light |-> lightFactor, co2 |-> co2Factor,
                    temperature |-> tempFactor]]

(***************************************************************************)
(* limitingFactor.js                                                       *)
(***************************************************************************)
\* The entries of EXPLANATIONS are named, not spelled out: "light.low" is
\* EXPLANATIONS.light.low, and so on.

\* a variant that compares the factors pairwise and never looks at minValue
limitingFactorOf_pairwise(light, co2, temperature, minValue) ==
  IF light <= co2 THEN "light"
  ELSE IF co2 <= temperature THEN "co2"
  ELSE "temperature"

\* the if / else-if / else chain that names the factor
limitingFactorOf(light, co2, temperature, minValue) ==
  IF light = minValue THEN "light"
  ELSE IF co2 = minValue THEN "co2"
  ELSE "temperature"

\* the explanation chosen in the same chain
reasonOf(light, co2, temperature, minValue) ==
  IF light = minValue THEN "light.low"
  ELSE IF co2 = minValue THEN "co2.low"
  ELSE IF 10 * temperature < 7 * SCALE THEN "temperature.low"
  ELSE IF 100 * temperature > 95 * SCALE THEN "temperature.optimal"
  ELSE "temperature.high"

\* a variant whose buckets include their upper thresholds
severityOf_inclusive(minValue) ==
  IF 10 * minValue <= 3 * SCALE THEN "severe"
  ELSE IF 10 * minValue <= 6 * SCALE THEN "moderate"
  ELSE "mild"

\* severe below 0.3, moderate below 0.6, else mild
severityOf(minValue) ==
  IF 10 * minValue < 3 * SCALE THEN "severe"
  ELSE IF 10 * minValue < 6 * SCALE THEN "moderate"
  ELSE "mild"

identifyLimitingFactor(nf) ==
  LET light == nf.light
      co2 == nf.co2
      temperature == nf.temperature
      minValue == Min3(light, co2, temperature)
  IN  [limitingFactor |-> limitingFactorOf(light, co2, temperature, minValue),
       reason |-> reasonOf(light, co2, temperature, minValue),
       severity |-> severityOf(minValue),
       value |-> minValue]

\* ---- analyzeAllFactors ----
\* The explanation texts are named as in EXPLANATIONS: "light.adequate",
\* "co2.low", "temperature.high", ...

\* status of light and of co2: optimal above 0.7, suboptimal above 0.4
analyzeAllFactors_status(value) ==
  IF 10 * value > 7 * SCALE THEN "optimal"
  ELSE IF 10 * value > 4 * SCALE THEN "suboptimal"
  ELSE "limiting"

\* status of temperature: optimal above 0.85, suboptimal above 0.5
analyzeAllFactors_temperatureStatus(temperature) ==
  IF 100 * temperature > 85 * SCALE THEN "optimal"
  ELSE IF 10 * temperature > 5 * SCALE THEN "suboptimal"
  ELSE "limiting"

\* explanation of temperature: optimal above 0.85, else low for a raw
\* temperature below 20, else high
analyzeAllFactors_temperatureExplanation(temperature, rawTemperature) ==
  IF 100 * temperature > 85 * SCALE THEN "temperature.optimal"
  ELSE IF rawTemperature < 20 THEN "temperature.low"
  ELSE "temperature.high"

\* analyzeAllFactors(normalizedFactors, rawValues); the summary sentence is
\* its percentage and the reason of identifyLimitingFactor
analyzeAllFactors(nf, raw) ==
  LET lim == identifyLimitingFactor(nf)
  IN  [factors |->
         [light |->
            [value |-> nf.light,
             status |-> analyzeAllFactors_status(nf.light),
             rawValue |-> raw.light,
             explanation |-> IF 10 * nf.light > 7 * SCALE
                             THEN "light.adequate" ELSE "light.low"],
          co2 |->
            [value |-> nf.co2,
             status |-> analyzeAllFactors_status(nf.co2),
             rawValue |-> raw.co2,
             explanation |-> IF 10 * nf.co2 > 7 * SCALE
                             THEN "co2.adequate" ELSE "co2.low"],
          temperature |->
            [value |-> nf.temperature,
             status |-> analyzeAllFactors_temperatureStatus(nf.temperature),
             rawValue |-> raw.temperature,
             explanation |-> analyzeAllFactors_temperatureExplanation(
                               nf.temperature, raw.temperature)]],
       limiting |-> lim.limitingFactor,
       overallEfficiency |-> Min3(nf.light, nf.co2, nf.temperature),
       summary |-> [percent |-> RoundDiv(lim.value, SCALE \div 100),
                    reason |-> lim.reason]]

(***************************************************************************)
(* recommendationEngine.js                                                 *)
(***************************************************************************)
\* The reason sentences are named: "notLimiting" is the text returned for a
\* factor other than the limiting one, "closer" / "further" the two
\* temperature texts, "increase" / "decrease" the two light and co2 texts.

\* a variant that accepts an equal distance from the optimum
validateTemperature_notFurther(proposedValue, currentValue) ==
  LET optimal == 25
      currentDistance == Abs(currentValue - optimal)
      proposedDistance == Abs(proposedValue - optimal)
  IN  IF proposedDistance <= currentDistance
      THEN [willImprove |-> TRUE, reason |-> "closer"]
      ELSE [willImprove |-> FALSE, reason |-> "further"]

\* the temperature branch: closer to the optimum of 25 or not
validateTemperature(proposedValue, currentValue) ==
  LET optimal == 25
      currentDistance == Abs(currentValue - optimal)
      proposedDistance == Abs(proposedValue - optimal)
  IN  IF proposedDistance < currentDistance
      THEN [willImprove |-> TRUE, reason |-> "closer"]
      ELSE [willImprove |-> FALSE, reason |-> "further"]

\* a variant that also accepts an unchanged value
validateLightOrCO2_notLower(proposedValue, currentValue) ==
  IF proposedValue >= currentValue
  THEN [willImprove |-> TRUE, reason |-> "increase"]
  ELSE [willImprove |-> FALSE, reason |-> "decrease"]

\* the light and co2 branch: more is better
validateLightOrCO2(proposedValue, currentValue) ==
  IF proposedValue > currentValue
  THEN [willImprove |-> TRUE, reason |-> "increase"]
  ELSE [willImprove |-> FALSE, reason |-> "decrease"]

\* the part of validateChange after its early return
validateLimiting(factorToChange, proposedValue, currentValues) ==
  LET currentValue == currentValues[factorToChange]
  IN  IF factorToChange = "temperature"
      THEN validateTemperature(proposedValue, currentValue)
      ELSE validateLightOrCO2(proposedValue, currentValue)

\* a variant without the early return for a non-limiting factor
validateChange_noEarlyReturn(factorToChange, proposedValue, currentValues, currentLimitingFactor) ==
  validateLimiting(factorToChange, proposedValue, currentValues)

validateChange(factorToChange, proposedValue, currentValues, currentLimitingFactor) ==
  IF factorToChange # currentLimitingFactor
  THEN [willImprove |-> FALSE, reason |-> "notLimiting"]
  ELSE validateLimiting(factorToChange, proposedValue, currentValues)

(***************************************************************************)
(* timeLapseSimulation.js                                                  *)
(***************************************************************************)
\* Record fields are in the units the code rounds to: rate in thousandths,
\* biomass and dailyGain in hundredths of a gram, stress in hundredths,
\* efficiency in percent.

\* ---- simulateGrowth: the statements of its loop body ----

\* a variant of the loop condition that stops one day early
simulateGrowth_loopCondition_strict(d, days) == d < days

\* the loop condition: day <= days
simulateGrowth_loopCondition(d, days) == d <= days

\* biomassGain = cumulativeGrowth * (rate * 0.05)
simulateGrowth_biomassGain(growth, rate) ==
  LET dailyGrowthRate == rate * 5    \* in hundredths of a SCALE unit
  IN  MulDiv(MulDiv(growth, dailyGrowthRate, SCALE), 1, 100)

\* a variant whose recovery is not held at 0
simulateGrowth_cumulativeStress_unclamped(stress, rate) ==
  IF 10 * rate < 4 * SCALE
  THEN stress + ((4 * SCALE) \div 10 - rate)
  ELSE stress - SCALE \div 10

\* cumulativeStress after the day: += 0.4 - rate below 0.4, else
\* max(0, cumulativeStress - 0.1)
simulateGrowth_cumulativeStress(stress, rate) ==
  IF 10 * rate < 4 * SCALE
  THEN stress + ((4 * SCALE) \div 10 - rate)
  ELSE Max2(0, stress - SCALE \div 10)

\* stressPenalty = min(cumulativeStress * 0.02, 0.3)
simulateGrowth_stressPenalty(stress) ==
  Min2(MulDiv(stress, 2, 100), (3 * SCALE) \div 10)

\* a variant that removes the fraction cumulativeStress itself, uncapped
simulateGrowth_cumulativeGrowth_uncapped(grown, stress, rate) ==
  IF 10 * rate < 4 * SCALE
  THEN grown - MulDiv(grown, stress, SCALE)
  ELSE grown

\* cumulativeGrowth after the day, from its value with the gain added and
\* the updated stress: minus cumulativeGrowth * stressPenalty * 0.01 below 0.4
simulateGrowth_cumulativeGrowth(grown, stress, rate) ==
  IF 10 * rate < 4 * SCALE
  THEN grown - MulDiv(MulDiv(grown, simulateGrowth_stressPenalty(stress), SCALE),
                      1, 100)
  ELSE grown

\* the record pushed
simulateGrowth_record(d, rate, growth, biomassGain, limitingFactor, stress) ==
  [day |-> d,
   rate |-> RoundDiv(rate, SCALE \div 1000),
   biomass |-> RoundDiv(growth, SCALE \div 100),
   dailyGain |-> RoundDiv(biomassGain, SCALE \div 100),
   limitingFactor |-> limitingFactor,
   stress |-> RoundDiv(stress, SCALE \div 100),
   efficiency |-> RoundDiv(rate, SCALE \div 100)]

\* one pass of the loop: the accumulators after the day and the record
simulateGrowthDay(cond, d, growth, stress) ==
  LET photoRes == calculatePhotosynthesisRate(cond.light, cond.co2,
                                              cond.temperature)
      rate == photoRes.rate
      biomassGain == simulateGrowth_biomassGain(growth, rate)
      stress2 == simulateGrowth_cumulativeStress(stress, rate)
      growth2 == simulateGrowth_cumulativeGrowth(growth + biomassGain, stress2, rate)
      lim == identifyLimitingFactor(photoRes.factors)
  IN  [cumulativeGrowth |-> growth2,
       cumulativeStress |-> stress2,
       biomassGain |-> biomassGain,
       rate |-> rate,
       record |-> simulateGrowth_record(d, rate, growth2, biomassGain,
                                        lim.limitingFactor, stress2)]

\* ---- simulateVariableConditions: the statements of its loop body ----

simulateVariableConditions_loopCondition(d, days) == d <= days

simulateVariableConditions_biomassGain(growth, rate) ==
  LET dailyGrowthRate == rate * 5
  IN  MulDiv(MulDiv(growth, dailyGrowthRate, SCALE), 1, 100)

\* a variant that assigns the shortfall instead of adding it
simulateVariableConditions_cumulativeStress_assigned(stress, rate) ==
  IF 10 * rate < 4 * SCALE
  THEN (4 * SCALE) \div 10 - rate
  ELSE Max2(0, stress - SCALE \div 10)

simulateVariableConditions_cumulativeStress(stress, rate) ==
  IF 10 * rate < 4 * SCALE
  THEN stress + ((4 * SCALE) \div 10 - rate)
  ELSE Max2(0, stress - SCALE \div 10)

simulateVariableConditions_stressPenalty(stress) ==
  Min2(MulDiv(stress, 2, 100), (3 * SCALE) \div 10)

\* a variant that applies the penalty on every day
simulateVariableConditions_cumulativeGrowth_alwaysPenalised(grown, stress, rate) ==
  grown - MulDiv(MulDiv(grown,
                        simulateVariableConditions_stressPenalty(stress),
                        SCALE), 1, 100)

simulateVariableConditions_cumulativeGrowth(grown, stress, rate) ==
  IF 10 * rate < 4 * SCALE
  THEN grown - MulDiv(MulDiv(grown,
                             simulateVariableConditions_stressPenalty(stress),
                             SCALE), 1, 100)
  ELSE grown

simulateVariableConditions_record(d, cond, rate, growth, biomassGain, limitingFactor, stress) ==
  [day |-> d,
   conditions |-> [light |-> cond.light, co2 |-> cond.co2,
                   temperature |-> cond.temperature],
   rate |-> RoundDiv(rate, SCALE \div 1000),
   biomass |-> RoundDiv(growth, SCALE \div 100),
   dailyGain |-> RoundDiv(biomassGain, SCALE \div 100),
   limitingFactor |-> limitingFactor,
   stress |-> RoundDiv(stress, SCALE \div 100),
   efficiency |-> RoundDiv(rate, SCALE \div 100)]

simulateVariableConditionsDay(cond, d, growth, stress) ==
  LET photoRes == calculatePhotosynthesisRate(cond.light, cond.co2,
                                              cond.temperature)
      rate == photoRes.rate
      biomassGain == simulateVariableConditions_biomassGain(growth, rate)
      stress2 == simulateVariableConditions_cumulativeStress(stress, rate)
      growth2 == simulateVariableConditions_cumulativeGrowth(growth + biomassGain,
                                                             stress2, rate)
      lim == identifyLimitingFactor(photoRes.factors)
  IN  [cumulativeGrowth |-> growth2,
       cumulativeStress |-> stress2,
       biomassGain |-> biomassGain,
       rate |-> rate,
       record |-> simulateVariableConditions_record(d, cond, rate, growth2,
                                                    biomassGain,
                                                    lim.limitingFactor, stress2)]

\* ---- simulateGrowth as a whole, for the functions that call it ----

\* the default of the parameter initialBiomass: 100 g
DEFAULT_INITIAL_BIOMASS == 100 * SCALE

\* the day loop from day d on, with the accumulators and the records so far
RECURSIVE simulateGrowth_loop(_, _, _, _, _, _)
simulateGrowth_loop(cond, days, d, growth, stress, res) ==
  IF simulateGrowth_loopCondition(d, days)
  THEN LET r == simulateGrowthDay(cond, d, growth, stress)
       IN  simulateGrowth_loop(cond, days, d + 1, r.cumulativeGrowth,
                               r.cumulativeStress, Append(res, r.record))
  ELSE res

\* simulateGrowth(conditions, days, initialBiomass): the records it returns
simulateGrowth(cond, days, initialBiomass) ==
  simulateGrowth_loop(cond, days, 1, initialBiomass, 0, <<>>)

\* ---- compareScenarios ----

\* the comparison object; biomasses and their difference are in hundredths
\* of a gram, percentImprovement in tenths of a percent
compareScenarios_comparison(baseFinal, altFinal) ==
  LET biomassDifference == altFinal.biomass - baseFinal.biomass
  IN  [baselineFinalBiomass |-> baseFinal.biomass,
       alternativeFinalBiomass |-> altFinal.biomass,
       biomassDifference |-> biomassDifference,
       percentImprovement |-> RoundDiv(biomassDifference * 1000,
                                       baseFinal.biomass),
       betterScenario |-> IF biomassDifference > 0 THEN "alternative"
                          ELSE "baseline"]

NoComparisonObject ==
  [baselineFinalBiomass |-> 0, alternativeFinalBiomass |-> 0,
   biomassDifference |-> 0, percentImprovement |-> 0,
   betterScenario |-> "pending"]

\* a variant that answers empty trajectories with an empty report
compareScenarios_emptyReport(baseConditions, altConditions, days) ==
  LET baseGrowth == simulateGrowth(baseConditions, days, DEFAULT_INITIAL_BIOMASS)
      altGrowth == simulateGrowth(altConditions, days, DEFAULT_INITIAL_BIOMASS)
  IN  IF Len(baseGrowth) = 0 \/ Len(altGrowth) = 0
      THEN [outcome |-> "returned", baseline |-> <<>>, alternative |-> <<>>,
            comparison |-> NoComparisonObject]
      ELSE [outcome |-> "returned",
            baseline |-> baseGrowth,
            alternative |-> altGrowth,
            comparison |-> compareScenarios_comparison(
                             baseGrowth[Len(baseGrowth)],
                             altGrowth[Len(altGrowth)])]

\* compareScenarios(baseConditions, altConditions, days).  With no record
\* in a trajectory its last element is undefined and reading .biomass of it
\* throws a TypeError.
compareScenarios(baseConditions, altConditions, days) ==
  LET baseGrowth == simulateGrowth(baseConditions, days, DEFAULT_INITIAL_BIOMASS)
      altGrowth == simulateGrowth(altConditions, days, DEFAULT_INITIAL_BIOMASS)
  IN  IF Len(baseGrowth) = 0 \/ Len(altGrowth) = 0
      THEN [outcome |-> "TypeError", baseline |-> <<>>, alternative |-> <<>>,
            comparison |-> NoComparisonObject]
      ELSE [outcome |-> "returned",
            baseline |-> baseGrowth,
            alternative |-> altGrowth,
            comparison |-> compareScenarios_comparison(
                             baseGrowth[Len(baseGrowth)],
                             altGrowth[Len(altGrowth)])]

\* ---- analyzeGrowthEfficiency ----
\* An object used as a table of counts is the sequence of its entries
\* [factor, count] in insertion order, the order of Object.entries.

\* counts[factor] = (counts[factor] || 0) + 1
RECURSIVE analyzeGrowthEfficiency_count(_, _, _)
analyzeGrowthEfficiency_count(counts, factor, i) ==
  IF i > Len(counts)
  THEN Append(counts, [factor |-> factor, count |-> 1])
  ELSE IF counts[i].factor = factor
       THEN [counts EXCEPT ![i].count = @ + 1]
       ELSE analyzeGrowthEfficiency_count(counts, factor, i + 1)

\* the reduce over the records, from record i on
RECURSIVE analyzeGrowthEfficiency_limitingFactorCounts(_, _, _)
analyzeGrowthEfficiency_limitingFactorCounts(simulationResults, i, counts) ==
  IF i > Len(simulationResults)
  THEN counts
  ELSE analyzeGrowthEfficiency_limitingFactorCounts(
         simulationResults, i + 1,
         analyzeGrowthEfficiency_count(counts,
                                       simulationResults[i].limitingFactor, 1))

\* a variant of the comparator that also ranks a later entry before an
\* earlier one of the same count
analyzeGrowthEfficiency_compare_laterFirst(a, b) == b.count - a.count + 1

\* the comparator of the sort: (a, b) => b[1] - a[1]
analyzeGrowthEfficiency_compare(a, b) == b.count - a.count

\* the sort is stable: an entry is placed in front of the first sorted entry
\* that the comparator ranks behind it, so behind its equals
RECURSIVE analyzeGrowthEfficiency_insert(_, _, _)
analyzeGrowthEfficiency_insert(sorted, entry, i) ==
  IF i > Len(sorted) \/ analyzeGrowthEfficiency_compare(sorted[i], entry) > 0
  THEN SubSeq(sorted, 1, i - 1) \o <<entry>> \o SubSeq(sorted, i, Len(sorted))
  ELSE analyzeGrowthEfficiency_insert(sorted, entry, i + 1)

\* the entries sorted by descending count, from entry i on
RECURSIVE analyzeGrowthEfficiency_sort(_, _, _)
analyzeGrowthEfficiency_sort(entries, i, sorted) ==
  IF i > Len(entries)
  THEN sorted
  ELSE analyzeGrowthEfficiency_sort(
         entries, i + 1, analyzeGrowthEfficiency_insert(sorted, entries[i], 1))

\* the sum, the least and the greatest of the rates of the records
RECURSIVE analyzeGrowthEfficiency_rates(_, _, _)
analyzeGrowthEfficiency_rates(simulationResults, i, acc) ==
  IF i > Len(simulationResults)
  THEN acc
  ELSE analyzeGrowthEfficiency_rates(
         simulationResults, i + 1,
         [sum |-> acc.sum + simulationResults[i].rate,
          min |-> Min2(acc.min, simulationResults[i].rate),
          max |-> Max2(acc.max, simulationResults[i].rate)])

\* the value returned for no results
NullAnalysis ==
  [returned |-> "null", averageEfficiency |-> 0, minEfficiency |-> 0,
   maxEfficiency |-> 0, totalGrowth |-> 0,
   growthRate |-> [finite |-> TRUE, value |-> 0], initialBiomass |-> 0,
   finalBiomass |-> 0, mostCommonLimitingFactor |-> "none",
   limitingFactorDistribution |-> <<>>, days |-> 0]

\* analyzeGrowthEfficiency(simulationResults).  Efficiencies are in percent,
\* biomasses in hundredths of a gram, growthRate in tenths of a percent; a
\* growthRate divided by an initial biomass of 0 is not a finite number.
analyzeGrowthEfficiency(simulationResults) ==
  IF Len(simulationResults) = 0
  THEN NullAnalysis
  ELSE
    LET n == Len(simulationResults)
        first == simulationResults[1]
        rates == analyzeGrowthEfficiency_rates(
                   simulationResults, 2,
                   [sum |-> first.rate, min |-> first.rate, max |-> first.rate])
        initialBiomass == first.biomass - first.dailyGain
        finalBiomass == simulationResults[n].biomass
        totalGrowth == finalBiomass - initialBiomass
        limitingFactorCounts ==
          analyzeGrowthEfficiency_limitingFactorCounts(simulationResults, 1, <<>>)
        mostCommonLimiting ==
          analyzeGrowthEfficiency_sort(limitingFactorCounts, 1, <<>>)[1].factor
    IN  [returned |-> "object",
         averageEfficiency |-> RoundDiv(rates.sum, 10 * n),
         minEfficiency |-> RoundDiv(rates.min, 10),
         maxEfficiency |-> RoundDiv(rates.max, 10),
         totalGrowth |-> totalGrowth,
         growthRate |-> IF initialBiomass = 0
                        THEN [finite |-> FALSE, value |-> 0]
                        ELSE [finite |-> TRUE,
                              value |-> RoundDiv(totalGrowth * 1000,
                                                 initialBiomass)],
         initialBiomass |-> initialBiomass,
         finalBiomass |-> finalBiomass,
         mostCommonLimitingFactor |-> mostCommonLimiting,
         limitingFactorDistribution |-> limitingFactorCounts,
         days |-> n]

(***************************************************************************)
(* calculatePhotosynthesisRate applied to arbitrary JavaScript values.     *)
(* A value has a type; a number is NaN or carries num; a string is the     *)
(* sequence of its characters.  The operators below are the language's     *)
(* conversions as the statements of the normalizers apply them.            *)
(***************************************************************************)
JSNumber(n) == [type |-> "number", nan |-> FALSE, num |-> n, chars |-> <<>>]

JSNaN == [type |-> "number", nan |-> TRUE, num |-> 0, chars |-> <<>>]

JSString(chars) == [type |-> "string", nan |-> FALSE, num |-> 0, chars |-> chars]

JSUndefined == [type |-> "undefined", nan |-> FALSE, num |-> 0, chars |-> <<>>]

JSNull == [type |-> "null", nan |-> FALSE, num |-> 0, chars |-> <<>>]

DigitChars == <<"0", "1", "2", "3", "4", "5", "6", "7", "8", "9">>

IsDigit(c) == \E i \in 1..Len(DigitChars) : DigitChars[i] = c

DigitValue(c) == (CHOOSE i \in 1..Len(DigitChars) : DigitChars[i] = c) - 1

\* the number written by the first k characters of a string of digits
RECURSIVE DigitsToNumber(_, _)
DigitsToNumber(chars, k) ==
  IF k = 0 THEN 0
  ELSE 10 * DigitsToNumber(chars, k - 1) + DigitValue(chars[k])

\* the decimal digits of a non-negative integer
RECURSIVE NumberToString(_)
NumberToString(n) ==
  IF n < 10 THEN <<DigitChars[n + 1]>>
  ELSE NumberToString(n \div 10) \o <<DigitChars[(n % 10) + 1]>>

\* ToNumber: undefined is NaN, null is 0, a string of digits is its number
\* (the empty string 0), any other string is NaN
ToNumber(v) ==
  IF v.type = "number" THEN v
  ELSE IF v.type = "undefined" THEN JSNaN
  ELSE IF v.type = "null" THEN JSNumber(0)
  ELSE IF \A i \in 1..Len(v.chars) : IsDigit(v.chars[i])
       THEN JSNumber(DigitsToNumber(v.chars, Len(v.chars)))
       ELSE JSNaN

\* v + n for a non-negative integer n: a string is concatenated with the
\* digits of n, anything else is converted and added
JSPlus(v, n) ==
  IF v.type = "string" THEN JSString(v.chars \o NumberToString(n))
  ELSE LET x == ToNumber(v)
       IN  IF x.nan THEN JSNaN ELSE JSNumber(x.num + n)

\* normalizeLightFactor for any value: light <= 0 and the division convert
\* light to a number, light + 240 does not convert a string
normalizeLightFactor_any(light) ==
  LET x == ToNumber(light)
      sum == ToNumber(JSPlus(light, (OPTIMAL_VALUES.light * 3) \div 10))
  IN  IF ~x.nan /\ x.num <= 0 THEN JSNumber(0)
      ELSE IF x.nan \/ sum.nan THEN JSNaN
      ELSE IF light.type = "number" THEN JSNumber(normalizeLightFactor(x.num))
      ELSE JSNumber(Min2(RoundDiv(x.num * SCALE, sum.num), SCALE))

\* normalizeCO2Factor for any value: every use of co2 converts it
normalizeCO2Factor_any(co2) ==
  LET x == ToNumber(co2)
  IN  IF x.nan THEN JSNaN ELSE JSNumber(normalizeCO2Factor(x.num))

\* normalizeTemperatureFactor for any value: every use of temperature
\* converts it; the comparisons with NaN are false and the curve is NaN
normalizeTemperatureFactor_any(temperature) ==
  LET x == ToNumber(temperature)
  IN  IF x.nan THEN JSNaN ELSE JSNumber(normalizeTemperatureFactor(x.num))

\* Math.min of three numbers: NaN if any of them is NaN
MathMin3(a, b, c) ==
  IF a.nan \/ b.nan \/ c.nan THEN JSNaN
  ELSE JSNumber(Min3(a.num, b.num, c.num))

\* calculatePhotosynthesisRate for any values: no statement of it or of the
\* normalizers tests a type or throws
calculatePhotosynthesisRate_any(light, co2, temperature) ==
  LET lightFactor == normalizeLightFactor_any(light)
      co2Factor == normalizeCO2Factor_any(co2)
      tempFactor == normalizeTemperatureFactor_any(temperature)
  IN  [outcome |-> "returned",
       rate |-> MathMin3(lightFactor, co2Factor, tempFactor),
       factors |-> [light |-> lightFactor, co2 |-> co2Factor,
                    temperature |-> tempFactor]]

\* Math.round(rate * 1000) / 1000 of a record of simulateGrowth
simulateGrowth_recordRate_any(rate) ==
  IF rate.nan THEN JSNaN
  ELSE JSNumber(RoundDiv(rate.num, SCALE \div 1000) * (SCALE \div 1000))

\* the first day of simulateGrowth for conditions of any values: the rate
\* of its record and the factors handed to identifyLimitingFactor
simulateGrowth_any(cond) ==
  LET photoRes == calculatePhotosynthesisRate_any(cond.light, cond.co2,
                                                  cond.temperature)
  IN  [photoRes EXCEPT !.rate = simulateGrowth_recordRate_any(photoRes.rate)]

(***************************************************************************)
(* recommendationEngine.js: generateRecommendation.  Each text is given by *)
(* its first sentence; a null warning is "null" and a null targetValue is  *)
(* JSNull.                                                                 *)
(***************************************************************************)
\* nf is the parameter normalizedFactors, accepted and never read
generateRecommendation(limitingFactor, currentValues, nf) ==
  LET light == currentValues.light
      co2 == currentValues.co2
      temperature == currentValues.temperature
      chosen ==
        CASE limitingFactor = "light" ->
               IF light < 200 THEN
                 [recommendation |-> "Increase light intensity significantly.",
                  warning |-> "null", targetValue |-> JSNumber(600)]
               ELSE IF light < 500 THEN
                 [recommendation |-> "Increase light intensity moderately.",
                  warning |-> "null", targetValue |-> JSNumber(700)]
               ELSE IF light < 800 THEN
                 [recommendation |-> "Light is approaching optimal levels.",
                  warning |-> "null", targetValue |-> JSNumber(850)]
               ELSE
                 [recommendation |-> "Light intensity is already optimal.",
                  warning |-> "Light is not the limiting factor.",
                  targetValue |-> JSNull]
          [] limitingFactor = "co2" ->
               IF co2 < 200 THEN
                 [recommendation |-> "Increase CO2 concentration significantly.",
                  warning |-> "null", targetValue |-> JSNumber(500)]
               ELSE IF co2 < 400 THEN
                 [recommendation |->
                    "Increase CO2 to atmospheric levels (400 ppm) or higher.",
                  warning |-> "null", targetValue |-> JSNumber(450)]
               ELSE IF co2 < 600 THEN
                 [recommendation |-> "CO2 is near-optimal.",
                  warning |-> "null", targetValue |-> JSNumber(700)]
               ELSE
                 [recommendation |-> "CO2 concentration is already optimal.",
                  warning |-> "CO2 is not the limiting factor.",
                  targetValue |-> JSNull]
          [] limitingFactor = "temperature" ->
               IF temperature < 15 THEN
                 [recommendation |-> "Increase temperature significantly.",
                  warning |->
                    "At temperatures below 15 C, photosynthetic enzymes work very slowly.",
                  targetValue |-> JSNumber(23)]
               ELSE IF temperature < 20 THEN
                 [recommendation |-> "Increase temperature moderately.",
                  warning |-> "null", targetValue |-> JSNumber(25)]
               ELSE IF temperature > 35 THEN
                 [recommendation |-> "Decrease temperature urgently.",
                  warning |->
                    "High temperatures can permanently damage photosynthetic machinery.",
                  targetValue |-> JSNumber(25)]
               ELSE IF temperature > 30 THEN
                 [recommendation |-> "Decrease temperature slightly.",
                  warning |-> "null", targetValue |-> JSNumber(25)]
               ELSE
                 [recommendation |->
                    "Temperature is in the optimal range (20-30 C).",
                  warning |-> "Temperature is not the limiting factor.",
                  targetValue |-> JSNull]
          [] OTHER ->
               [recommendation |-> "Unable to determine limiting factor.",
                warning |-> "null", targetValue |-> JSNull]
  IN  [recommendation |-> chosen.recommendation,
       warning |-> chosen.warning,
       targetValue |-> chosen.targetValue,
       limitingFactor |-> limitingFactor]

(***************************************************************************)
(* photosynthesisLogic.js: the adapters the page calls.                    *)
(***************************************************************************)
\* a variant whose switch has no case for 'co2'
detectLimitingFactor_displayName_noCO2(internalName) ==
  CASE internalName = "light" -> "Light"
    [] internalName = "temperature" -> "Temperature"
    [] OTHER -> "None"

\* the switch on limiting.limitingFactor
detectLimitingFactor_displayName(internalName) ==
  CASE internalName = "light" -> "Light"
    [] internalName = "co2" -> "CO2"
    [] internalName = "temperature" -> "Temperature"
    [] OTHER -> "None"

detectLimitingFactor(light, co2, temperature) ==
  LET modelResult == calculatePhotosynthesisRate(light, co2, temperature)
      limitingReport == identifyLimitingFactor(modelResult.factors)
  IN  detectLimitingFactor_displayName(limitingReport.limitingFactor)

\* the object generateRecommendation returns inside getRecommendation;
\* internalFactor is the switch that maps the display string back
getRecommendation_generated(limitingFactor, light, co2, temperature) ==
  LET internalFactor ==
        CASE limitingFactor = "Light" -> "light"
          [] limitingFactor = "CO2" -> "co2"
          [] limitingFactor = "Temperature" -> "temperature"
          [] OTHER -> "light"
      currentValues ==
        [light |-> light, co2 |-> co2, temperature |-> temperature]
      modelResult == calculatePhotosynthesisRate(light, co2, temperature)
  IN  generateRecommendation(internalFactor, currentValues,
                             modelResult.factors)

getRecommendation(limitingFactor, light, co2, temperature) ==
  IF limitingFactor = "" \/ limitingFactor = "None"
  THEN "All factors are within acceptable ranges."
  ELSE getRecommendation_generated(limitingFactor, light, co2,
                                   temperature).recommendation

\* runTimeLapseSimulation(initialState, days): the { time, rate } points; a
\* rate is in thousandths, as simulateGrowth records it
runTimeLapseSimulation(initialState, days) ==
  LET simResults ==
        simulateGrowth([light |-> initialState.light,
                        co2 |-> initialState.co2,
                        temperature |-> initialState.temperature],
                       days, DEFAULT_INITIAL_BIOMASS)
  IN  [i \in 1..Len(simResults) |->
         [time |-> simResults[i].day, rate |-> simResults[i].rate]]

(***************************************************************************)
(* pages/Simulator.jsx.                                                    *)
(***************************************************************************)
\* newData of handleTimeLapseSimulation; the rate of a graph point is in
\* SCALE units
Simulator_newData(simData, startTime) ==
  [i \in 1..Len(simData) |->
     [time |-> startTime + simData[i].time,
      rate |-> simData[i].rate * (SCALE \div 1000)]]

(***************************************************************************)
(* components/TimeLapse.jsx.  A photosynthesisRate, growth or health of a  *)
(* projected day is in tenths of a percent.                                *)
(***************************************************************************)
\* the callback of simulationData.map in generateTimelapseData, over all
\* the points
TimeLapse_entries(simData, currentConditions) ==
  [i \in 1..Len(simData) |->
     [day |-> IF simData[i].time # 0 THEN simData[i].time ELSE i,
      photosynthesisRate |-> simData[i].rate,
      growth |-> Min2(1000, simData[i].rate),
      health |-> Min2(1000, Max2(100, simData[i].rate)),
      light |-> currentConditions.light,
      co2 |-> currentConditions.co2,
      temperature |-> currentConditions.temperature]]

\* generateTimelapseData() when environmentalFactors are provided
generateTimelapseData(factors) ==
  LET currentConditions ==
        [light |-> factors.light, co2 |-> factors.co2,
         temperature |-> factors.temperature]
  IN  TimeLapse_entries(runTimeLapseSimulation(currentConditions, 30),
                        currentConditions)

\* a variant of the updater that wraps one tick later
TimeLapse_nextDay_late(prev) ==
  IF prev > 29 THEN 0 ELSE prev + 1

\* the updater handed to setCurrentDay by a tick: the day it returns
TimeLapse_nextDay(prev) ==
  IF prev >= 29 THEN 0 ELSE prev + 1

(***************************************************************************)
(* State.  Each component is exercised by a specification of its own; the  *)
(* variables of the other components then rest at their idle values.       *)
(***************************************************************************)
rateVars == <<conditions, photoResult, prevConditions, prevResult, changedFactor>>

limitVars == <<normalizedFactors, limiting>>

validateVars == <<validateArgs, validateResult>>

simVars ==
  <<simArgs, day, cumulativeGrowth, cumulativeStress, results, pc, analysis>>

sim2Vars ==
  <<simArgs2, day2, cumulativeGrowth2, cumulativeStress2, results2, pc2>>

compareVars == <<compareArgs, comparison>>

analyzeVars == <<rawValues, factorAnalysis>>

callVars == <<callArgs, callOutcome>>

adapterVars == <<adapterArgs, detectedFactor, recommended, recommendationText>>

pageVars == <<pageInputs, computed, graphData, effectDeps>>

lapseVars ==
  <<active, environmentalFactors, timeScale, isPlaying, currentDay,
    simulationData, interval>>

vars ==
  <<rateVars, limitVars, validateVars, simVars, sim2Vars, compareVars,
    analyzeVars, callVars, adapterVars, pageVars, lapseVars>>

NoResult ==
  [rate |-> 0, factors |-> [light |-> 0, co2 |-> 0, temperature |-> 0]]

NoReport ==
  [limitingFactor |-> "pending", reason |-> "pending", severity |-> "pending",
   value |-> 0]

NoVerdict == [willImprove |-> FALSE, reason |-> "pending"]

NoAnalysis == [NullAnalysis EXCEPT !.returned = "pending"]

NoFactorAnalysis ==
  [analyzeAllFactors(NoResult.factors, OPTIMAL_VALUES) EXCEPT
     !.limiting = "pending"]

NoOutcome ==
  [outcome |-> "pending", rate |-> JSNumber(0),
   factors |-> [light |-> JSNumber(0), co2 |-> JSNumber(0),
                temperature |-> JSNumber(0)]]

NoComparison ==
  [outcome |-> "pending", baseline |-> <<>>, alternative |-> <<>>,
   comparison |-> NoComparisonObject]

RateIdle ==
  /\ conditions = OPTIMAL_VALUES
  /\ photoResult = NoResult
  /\ prevConditions = OPTIMAL_VALUES
  /\ prevResult = NoResult
  /\ changedFactor = "pending"

LimitIdle ==
  /\ normalizedFactors = NoResult.factors
  /\ limiting = NoReport

ValidateIdle ==
  /\ validateArgs = [factorToChange |-> "light", proposedValue |-> 0,
                     currentValues |-> OPTIMAL_VALUES,
                     currentLimitingFactor |-> "light"]
  /\ validateResult = NoVerdict

SimIdle ==
  /\ simArgs = [fn |-> "none", conditions |-> OPTIMAL_VALUES,
                conditionGenerator |-> <<>>, days |-> 0, initialBiomass |-> 0]
  /\ day = 0
  /\ cumulativeGrowth = 0
  /\ cumulativeStress = 0
  /\ results = <<>>
  /\ pc = "idle"
  /\ analysis = NoAnalysis

Sim2Idle ==
  /\ simArgs2 = [fn |-> "none", conditions |-> OPTIMAL_VALUES,
                 conditionGenerator |-> <<>>, days |-> 0, initialBiomass |-> 0]
  /\ day2 = 0
  /\ cumulativeGrowth2 = 0
  /\ cumulativeStress2 = 0
  /\ results2 = <<>>
  /\ pc2 = "idle"

CompareIdle ==
  /\ compareArgs = [baseConditions |-> OPTIMAL_VALUES,
                    altConditions |-> OPTIMAL_VALUES, days |-> 0]
  /\ comparison = NoComparison

AnalyzeIdle ==
  /\ rawValues = OPTIMAL_VALUES
  /\ factorAnalysis = NoFactorAnalysis

CallIdle ==
  /\ callArgs = [fn |-> "none", light |-> JSNumber(800),
                 co2 |-> JSNumber(400), temperature |-> JSNumber(25)]
  /\ callOutcome = NoOutcome

NoRecommendation ==
  [recommendation |-> "pending", warning |-> "pending",
   targetValue |-> JSNull, limitingFactor |-> "pending"]

AdapterIdle ==
  /\ adapterArgs = OPTIMAL_VALUES
  /\ detectedFactor = "pending"
  /\ recommended = NoRecommendation
  /\ recommendationText = "pending"

\* the page as its useState calls leave it, before the effect has run
PageIdle ==
  /\ pageInputs = [light |-> 800, co2 |-> 400, temperature |-> 25]
  /\ computed = [photosynthesisRate |-> 0, limitingFactor |-> "None",
                 recommendationText |-> "", plantHealth |-> 85 * SCALE]
  /\ graphData = <<>>
  /\ effectDeps = <<>>

\* the TimeLapse component as its useState calls leave it, not active
LapseIdle ==
  /\ active = FALSE
  /\ environmentalFactors = OPTIMAL_VALUES
  /\ timeScale = 10
  /\ isPlaying = FALSE
  /\ currentDay = 0
  /\ simulationData = <<>>
  /\ interval = FALSE

(***************************************************************************)
(* The rate calculator under changing inputs.  The inputs are drawn from   *)
(* the grid; calculatePhotosynthesisRate is applied to them; afterwards    *)
(* one raw input at a time is moved to another grid value (a slider of     *)
(* the page) and the rate is evaluated again, the previous evaluation      *)
(* being kept for comparison.                                              *)
(***************************************************************************)
InitRate ==
  /\ conditions \in Conditions
  /\ photoResult = NoResult
  /\ prevConditions = conditions
  /\ prevResult = NoResult
  /\ changedFactor = "pending"
  /\ LimitIdle /\ ValidateIdle /\ SimIdle /\ Sim2Idle
  /\ CompareIdle /\ AnalyzeIdle /\ CallIdle
  /\ AdapterIdle /\ PageIdle /\ LapseIdle

\* the first evaluation of the drawn inputs
CalculateRate ==
  /\ changedFactor = "pending"
  /\ photoResult' = calculatePhotosynthesisRate(conditions.light, conditions.co2,
                                                 conditions.temperature)
  /\ prevResult' = photoResult'
  /\ changedFactor' = "none"
  /\ UNCHANGED <<adapterVars, pageVars, lapseVars,
                 conditions, prevConditions, limitVars, validateVars, simVars,
               sim2Vars, compareVars, analyzeVars, callVars>>

\* one raw input is set to another value and the rate is evaluated again
ChangeFactor(f, v) ==
  /\ changedFactor # "pending"
  /\ v # conditions[f]
  /\ prevConditions' = conditions
  /\ prevResult' = photoResult
  /\ conditions' = [conditions EXCEPT ![f] = v]
  /\ photoResult' = calculatePhotosynthesisRate(conditions'.light, conditions'.co2,
                                                 conditions'.temperature)
  /\ changedFactor' = f
  /\ UNCHANGED <<adapterVars, pageVars, lapseVars,
                 limitVars, validateVars, simVars,
               sim2Vars, compareVars, analyzeVars, callVars>>

ChangeLight == \E v \in Lights : ChangeFactor("light", v)

ChangeCO2 == \E v \in CO2s : ChangeFactor("co2", v)

ChangeTemperature == \E v \in Temperatures : ChangeFactor("temperature", v)

NextRate == CalculateRate \/ ChangeLight \/ ChangeCO2 \/ ChangeTemperature

SpecRate == InitRate /\ [][NextRate]_vars

(***************************************************************************)
(* The limiting-factor analyzer: identifyLimitingFactor applied to a       *)
(* drawn triple of normalized factors.                                     *)
(***************************************************************************)
InitLimiting ==
  /\ normalizedFactors \in [light : Levels, co2 : Levels, temperature : Levels]
  /\ limiting = NoReport
  /\ RateIdle /\ ValidateIdle /\ SimIdle /\ Sim2Idle
  /\ CompareIdle /\ AnalyzeIdle /\ CallIdle
  /\ AdapterIdle /\ PageIdle /\ LapseIdle

IdentifyLimitingFactor ==
  /\ limiting = NoReport
  /\ limiting' = identifyLimitingFactor(normalizedFactors)
  /\ UNCHANGED <<adapterVars, pageVars, lapseVars,
                 normalizedFactors, rateVars, validateVars, simVars,
               sim2Vars, compareVars, analyzeVars, callVars>>

NextLimiting == IdentifyLimitingFactor

SpecLimiting == InitLimiting /\ [][NextLimiting]_vars

(***************************************************************************)
(* validateChange applied to drawn arguments.                              *)
(***************************************************************************)
RawValues(f) ==
  IF f = "light" THEN Lights ELSE IF f = "co2" THEN CO2s ELSE Temperatures

InitValidate ==
  /\ \E f \in FactorNames, g \in FactorNames, cv \in Conditions :
       \E v \in RawValues(f) :
         validateArgs = [factorToChange |-> f, proposedValue |-> v,
                         currentValues |-> cv, currentLimitingFactor |-> g]
  /\ validateResult = NoVerdict
  /\ RateIdle /\ LimitIdle /\ SimIdle /\ Sim2Idle
  /\ CompareIdle /\ AnalyzeIdle /\ CallIdle
  /\ AdapterIdle /\ PageIdle /\ LapseIdle

ValidateChange ==
  /\ validateResult = NoVerdict
  /\ validateResult' = validateChange(validateArgs.factorToChange,
                                       validateArgs.proposedValue,
                                       validateArgs.currentValues,
                                       validateArgs.currentLimitingFactor)
  /\ UNCHANGED <<adapterVars, pageVars, lapseVars,
                 validateArgs, rateVars, limitVars, simVars,
               sim2Vars, compareVars, analyzeVars, callVars>>

NextValidate == ValidateChange

SpecValidate == InitValidate /\ [][NextValidate]_vars

(***************************************************************************)
(* The growth simulator.  A call of simulateGrowth or of                   *)
(* simulateVariableConditions is drawn; its day loop runs one pass per     *)
(* step; the call returns when day exceeds days.  A condition generator is *)
(* the sequence of the conditions it returns for day 1, 2, ...             *)
(***************************************************************************)
\* the conditions a generator chooses among: the reference optimum, low
\* co2, co2 somewhat short of a rate of 0.4, freezing, darkness
GeneratorConditions ==
  { OPTIMAL_VALUES,
    [light |-> 800, co2 |-> 200, temperature |-> 25],
    [light |-> 800, co2 |-> 280, temperature |-> 25],
    [light |-> 800, co2 |-> 400, temperature |-> 0],
    [light |-> 0, co2 |-> 400, temperature |-> 25] }

Generators == [1..MaxDays -> GeneratorConditions]

InitGrowth ==
  /\ \E n \in DayCounts, b \in InitialBiomasses :
       \/ \E c \in Conditions :
            simArgs = [fn |-> "simulateGrowth", conditions |-> c,
                       conditionGenerator |-> <<>>, days |-> n,
                       initialBiomass |-> b]
       \/ \E g \in Generators :
            simArgs = [fn |-> "simulateVariableConditions",
                       conditions |-> OPTIMAL_VALUES,
                       conditionGenerator |-> g, days |-> n,
                       initialBiomass |-> b]
  /\ day = 0
  /\ cumulativeGrowth = 0
  /\ cumulativeStress = 0
  /\ results = <<>>
  /\ pc = "call"
  /\ analysis = NoAnalysis
  /\ RateIdle /\ LimitIdle /\ ValidateIdle /\ Sim2Idle
  /\ CompareIdle /\ AnalyzeIdle /\ CallIdle
  /\ AdapterIdle /\ PageIdle /\ LapseIdle

\* entry: results = [], cumulativeGrowth = initialBiomass,
\* cumulativeStress = 0, day = 1
SimEnter ==
  /\ pc = "call"
  /\ results' = <<>>
  /\ cumulativeGrowth' = simArgs.initialBiomass
  /\ cumulativeStress' = 0
  /\ day' = 1
  /\ pc' = "loop"
  /\ UNCHANGED <<adapterVars, pageVars, lapseVars,
                 simArgs, analysis, rateVars, limitVars, validateVars,
                 sim2Vars, compareVars, analyzeVars, callVars>>

\* one pass of the loop of simulateGrowth
SimulateGrowthDay ==
  /\ pc = "loop"
  /\ simArgs.fn = "simulateGrowth"
  /\ simulateGrowth_loopCondition(day, simArgs.days)
  /\ LET r == simulateGrowthDay(simArgs.conditions, day, cumulativeGrowth,
                                cumulativeStress)
     IN  /\ cumulativeGrowth' = r.cumulativeGrowth
         /\ cumulativeStress' = r.cumulativeStress
         /\ results' = Append(results, r.record)
  /\ day' = day + 1
  /\ UNCHANGED <<adapterVars, pageVars, lapseVars,
                 simArgs, pc, analysis, rateVars, limitVars, validateVars,
                 sim2Vars, compareVars, analyzeVars, callVars>>

\* one pass of the loop of simulateVariableConditions
SimulateVariableConditionsDay ==
  /\ pc = "loop"
  /\ simArgs.fn = "simulateVariableConditions"
  /\ simulateVariableConditions_loopCondition(day, simArgs.days)
  /\ LET r == simulateVariableConditionsDay(simArgs.conditionGenerator[day], day,
                                            cumulativeGrowth, cumulativeStress)
     IN  /\ cumulativeGrowth' = r.cumulativeGrowth
         /\ cumulativeStress' = r.cumulativeStress
         /\ results' = Append(results, r.record)
  /\ day' = day + 1
  /\ UNCHANGED <<adapterVars, pageVars, lapseVars,
                 simArgs, pc, analysis, rateVars, limitVars, validateVars,
                 sim2Vars, compareVars, analyzeVars, callVars>>

\* the loop condition fails: return results
SimReturn ==
  /\ pc = "loop"
  /\ IF simArgs.fn = "simulateGrowth"
     THEN ~simulateGrowth_loopCondition(day, simArgs.days)
     ELSE ~simulateVariableConditions_loopCondition(day, simArgs.days)
  /\ pc' = "done"
  /\ UNCHANGED <<adapterVars, pageVars, lapseVars,
                 simArgs, day, cumulativeGrowth, cumulativeStress, results,
                 analysis, rateVars, limitVars, validateVars,
                 sim2Vars, compareVars, analyzeVars, callVars>>

\* the returned results are handed to analyzeGrowthEfficiency
AnalyzeGrowthEfficiency ==
  /\ pc = "done"
  /\ analysis' = analyzeGrowthEfficiency(results)
  /\ pc' = "analyzed"
  /\ UNCHANGED <<adapterVars, pageVars, lapseVars,
                 simArgs, day, cumulativeGrowth, cumulativeStress, results,
                 rateVars, limitVars, validateVars,
                 sim2Vars, compareVars, analyzeVars, callVars>>

NextGrowth ==
  \/ SimEnter \/ SimulateGrowthDay \/ SimulateVariableConditionsDay
  \/ SimReturn \/ AnalyzeGrowthEfficiency

SpecGrowth == InitGrowth /\ [][NextGrowth]_vars

(***************************************************************************)
(* Two calls of the simulators in progress at the same time.  Each call    *)
(* has its own arguments and its own locals; a step is one statement group *)
(* of either call, so the two calls interleave in every possible way.      *)
(* The calls drawn are: the same call of simulateGrowth twice, the same    *)
(* call of simulateVariableConditions twice, or a call of simulateGrowth   *)
(* next to a call of simulateVariableConditions whose generator returns    *)
(* the same conditions on every day.                                       *)
(***************************************************************************)
\* the generator that returns cond on every day
ConstantGenerator(cond) == [d \in 1..MaxDays |-> cond]

InitRuns ==
  /\ \E n \in DayCounts, b \in InitialBiomasses :
       \/ \E c \in GeneratorConditions :
            /\ simArgs = [fn |-> "simulateGrowth", conditions |-> c,
                          conditionGenerator |-> <<>>, days |-> n,
                          initialBiomass |-> b]
            /\ simArgs2 = simArgs
       \/ \E g \in Generators :
            /\ simArgs = [fn |-> "simulateVariableConditions",
                          conditions |-> OPTIMAL_VALUES,
                          conditionGenerator |-> g, days |-> n,
                          initialBiomass |-> b]
            /\ simArgs2 = simArgs
       \/ \E c \in GeneratorConditions :
            /\ simArgs = [fn |-> "simulateGrowth", conditions |-> c,
                          conditionGenerator |-> <<>>, days |-> n,
                          initialBiomass |-> b]
            /\ simArgs2 = [fn |-> "simulateVariableConditions",
                           conditions |-> OPTIMAL_VALUES,
                           conditionGenerator |-> ConstantGenerator(c),
                           days |-> n, initialBiomass |-> b]
  /\ day = 0
  /\ cumulativeGrowth = 0
  /\ cumulativeStress = 0
  /\ results = <<>>
  /\ pc = "call"
  /\ analysis = NoAnalysis
  /\ day2 = 0
  /\ cumulativeGrowth2 = 0
  /\ cumulativeStress2 = 0
  /\ results2 = <<>>
  /\ pc2 = "call"
  /\ RateIdle /\ LimitIdle /\ ValidateIdle
  /\ CompareIdle /\ AnalyzeIdle /\ CallIdle
  /\ AdapterIdle /\ PageIdle /\ LapseIdle

\* entry of the second call
SimEnter2 ==
  /\ pc2 = "call"
  /\ results2' = <<>>
  /\ cumulativeGrowth2' = simArgs2.initialBiomass
  /\ cumulativeStress2' = 0
  /\ day2' = 1
  /\ pc2' = "loop"
  /\ UNCHANGED <<adapterVars, pageVars, lapseVars,
                 simArgs2, rateVars, limitVars, validateVars, simVars,
                 compareVars, analyzeVars, callVars>>

\* a variant in which cumulativeStress is one accumulator shared by all
\* calls instead of a local of each call
SimulateGrowthDay2_sharedStress ==
  /\ pc2 = "loop"
  /\ simArgs2.fn = "simulateGrowth"
  /\ simulateGrowth_loopCondition(day2, simArgs2.days)
  /\ LET r == simulateGrowthDay(simArgs2.conditions, day2, cumulativeGrowth2,
                                cumulativeStress)
     IN  /\ cumulativeGrowth2' = r.cumulativeGrowth
         /\ cumulativeStress2' = r.cumulativeStress
         /\ results2' = Append(results2, r.record)
  /\ day2' = day2 + 1
  /\ UNCHANGED <<adapterVars, pageVars, lapseVars,
                 simArgs2, pc2, rateVars, limitVars, validateVars, simVars,
                 compareVars, analyzeVars, callVars>>

\* one pass of the loop of simulateGrowth in the second call
SimulateGrowthDay2 ==
  /\ pc2 = "loop"
  /\ simArgs2.fn = "simulateGrowth"
  /\ simulateGrowth_loopCondition(day2, simArgs2.days)
  /\ LET r == simulateGrowthDay(simArgs2.conditions, day2, cumulativeGrowth2,
                                cumulativeStress2)
     IN  /\ cumulativeGrowth2' = r.cumulativeGrowth
         /\ cumulativeStress2' = r.cumulativeStress
         /\ results2' = Append(results2, r.record)
  /\ day2' = day2 + 1
  /\ UNCHANGED <<adapterVars, pageVars, lapseVars,
                 simArgs2, pc2, rateVars, limitVars, validateVars, simVars,
                 compareVars, analyzeVars, callVars>>

\* one pass of the loop of simulateVariableConditions in the second call
SimulateVariableConditionsDay2 ==
  /\ pc2 = "loop"
  /\ simArgs2.fn = "simulateVariableConditions"
  /\ simulateVariableConditions_loopCondition(day2, simArgs2.days)
  /\ LET r == simulateVariableConditionsDay(simArgs2.conditionGenerator[day2],
                                            day2, cumulativeGrowth2,
                                            cumulativeStress2)
     IN  /\ cumulativeGrowth2' = r.cumulativeGrowth
         /\ cumulativeStress2' = r.cumulativeStress
         /\ results2' = Append(results2, r.record)
  /\ day2' = day2 + 1
  /\ UNCHANGED <<adapterVars, pageVars, lapseVars,
                 simArgs2, pc2, rateVars, limitVars, validateVars, simVars,
                 compareVars, analyzeVars, callVars>>

\* the loop condition of the second call fails: return results
SimReturn2 ==
  /\ pc2 = "loop"
  /\ IF simArgs2.fn = "simulateGrowth"
     THEN ~simulateGrowth_loopCondition(day2, simArgs2.days)
     ELSE ~simulateVariableConditions_loopCondition(day2, simArgs2.days)
  /\ pc2' = "done"
  /\ UNCHANGED <<adapterVars, pageVars, lapseVars,
                 simArgs2, day2, cumulativeGrowth2, cumulativeStress2,
                 results2, rateVars, limitVars, validateVars, simVars,
                 compareVars, analyzeVars, callVars>>

NextRuns ==
  \/ SimEnter \/ SimulateGrowthDay \/ SimulateVariableConditionsDay
  \/ SimReturn
  \/ SimEnter2 \/ SimulateGrowthDay2 \/ SimulateVariableConditionsDay2
  \/ SimReturn2

SpecRuns == InitRuns /\ [][NextRuns]_vars

(***************************************************************************)
(* analyzeAllFactors applied to drawn raw values and the normalized        *)
(* factors that calculatePhotosynthesisRate returns for them.              *)
(***************************************************************************)
InitAnalyze ==
  /\ rawValues \in Conditions
  /\ factorAnalysis = NoFactorAnalysis
  /\ RateIdle /\ LimitIdle /\ ValidateIdle /\ SimIdle /\ Sim2Idle
  /\ CompareIdle /\ CallIdle
  /\ AdapterIdle /\ PageIdle /\ LapseIdle

AnalyzeAllFactors ==
  /\ factorAnalysis = NoFactorAnalysis
  /\ factorAnalysis' =
       analyzeAllFactors(
         calculatePhotosynthesisRate(rawValues.light, rawValues.co2,
                                     rawValues.temperature).factors,
         rawValues)
  /\ UNCHANGED <<adapterVars, pageVars, lapseVars,
                 rawValues, rateVars, limitVars, validateVars, simVars,
                 sim2Vars, compareVars, callVars>>

NextAnalyze == AnalyzeAllFactors

SpecAnalyze == InitAnalyze /\ [][NextAnalyze]_vars

(***************************************************************************)
(* compareScenarios applied to two drawn scenarios and a number of days.   *)
(***************************************************************************)
\* the scenarios compared: darkness, half and full reference light; low and
\* reference co2; freezing, cool, optimal and hot
ScenarioConditions ==
  {c \in Conditions : /\ c.light \in {0, 400, 800}
                      /\ c.co2 \in {200, 400}
                      /\ c.temperature \in {0, 20, 25, 40}}

InitCompare ==
  /\ \E b \in ScenarioConditions, a \in ScenarioConditions, n \in DayCounts :
       compareArgs = [baseConditions |-> b, altConditions |-> a, days |-> n]
  /\ comparison = NoComparison
  /\ RateIdle /\ LimitIdle /\ ValidateIdle /\ SimIdle /\ Sim2Idle
  /\ AnalyzeIdle /\ CallIdle
  /\ AdapterIdle /\ PageIdle /\ LapseIdle

CompareScenarios ==
  /\ comparison = NoComparison
  /\ comparison' = compareScenarios(compareArgs.baseConditions,
                                    compareArgs.altConditions,
                                    compareArgs.days)
  /\ UNCHANGED <<adapterVars, pageVars, lapseVars,
                 compareArgs, rateVars, limitVars, validateVars, simVars,
                 sim2Vars, analyzeVars, callVars>>

NextCompare == CompareScenarios

SpecCompare == InitCompare /\ [][NextCompare]_vars

(***************************************************************************)
(* A call of calculatePhotosynthesisRate, direct or as the first day of    *)
(* simulateGrowth, with arguments that need not be numbers.                *)
(***************************************************************************)
\* values that are not numbers: a string of digits, a word, the empty
\* string, undefined and null
NonNumbers ==
  { JSString(<<"8", "0", "0">>), JSString(<<"h", "i", "g", "h">>),
    JSString(<<>>), JSUndefined, JSNull }

LightValues == {JSNumber(0), JSNumber(800)} \cup NonNumbers

CO2Values == {JSNumber(0), JSNumber(400)} \cup NonNumbers

TemperatureValues == {JSNumber(0), JSNumber(25)} \cup NonNumbers

InitCall ==
  /\ \E fn \in {"calculatePhotosynthesisRate", "simulateGrowth"},
        l \in LightValues, c \in CO2Values, t \in TemperatureValues :
       callArgs = [fn |-> fn, light |-> l, co2 |-> c, temperature |-> t]
  /\ callOutcome = NoOutcome
  /\ RateIdle /\ LimitIdle /\ ValidateIdle /\ SimIdle /\ Sim2Idle
  /\ CompareIdle /\ AnalyzeIdle
  /\ AdapterIdle /\ PageIdle /\ LapseIdle

CallCalculatePhotosynthesisRate ==
  /\ callOutcome = NoOutcome
  /\ callArgs.fn = "calculatePhotosynthesisRate"
  /\ callOutcome' = calculatePhotosynthesisRate_any(callArgs.light, callArgs.co2,
                                                    callArgs.temperature)
  /\ UNCHANGED <<adapterVars, pageVars, lapseVars,
                 callArgs, rateVars, limitVars, validateVars, simVars,
                 sim2Vars, compareVars, analyzeVars>>

CallSimulateGrowth ==
  /\ callOutcome = NoOutcome
  /\ callArgs.fn = "simulateGrowth"
  /\ callOutcome' = simulateGrowth_any(callArgs)
  /\ UNCHANGED <<adapterVars, pageVars, lapseVars,
                 callArgs, rateVars, limitVars, validateVars, simVars,
                 sim2Vars, compareVars, analyzeVars>>

NextCall == CallCalculatePhotosynthesisRate \/ CallSimulateGrowth

SpecCall == InitCall /\ [][NextCall]_vars

(***************************************************************************)
(* The adapters of photosynthesisLogic.js as the page calls them: for      *)
(* inputs drawn from the grid, detectLimitingFactor, then getRecommendation *)
(* with the name it returned.                                              *)
(***************************************************************************)
InitAdapter ==
  /\ adapterArgs \in Conditions
  /\ detectedFactor = "pending"
  /\ recommended = NoRecommendation
  /\ recommendationText = "pending"
  /\ RateIdle /\ LimitIdle /\ ValidateIdle /\ SimIdle /\ Sim2Idle
  /\ CompareIdle /\ AnalyzeIdle /\ CallIdle
  /\ PageIdle /\ LapseIdle

DetectLimitingFactor ==
  /\ detectedFactor = "pending"
  /\ detectedFactor' =
       detectLimitingFactor(adapterArgs.light, adapterArgs.co2,
                            adapterArgs.temperature)
  /\ UNCHANGED <<adapterArgs, recommended, recommendationText, pageVars,
                 lapseVars, rateVars, limitVars, validateVars, simVars,
                 sim2Vars, compareVars, analyzeVars, callVars>>

GetRecommendation ==
  /\ detectedFactor # "pending"
  /\ recommendationText = "pending"
  /\ recommended' =
       IF detectedFactor = "" \/ detectedFactor = "None"
       THEN NoRecommendation
       ELSE getRecommendation_generated(detectedFactor, adapterArgs.light,
                                        adapterArgs.co2,
                                        adapterArgs.temperature)
  /\ recommendationText' =
       getRecommendation(detectedFactor, adapterArgs.light, adapterArgs.co2,
                         adapterArgs.temperature)
  /\ UNCHANGED <<adapterArgs, detectedFactor, pageVars,
                 lapseVars, rateVars, limitVars, validateVars, simVars,
                 sim2Vars, compareVars, analyzeVars, callVars>>

NextAdapter == DetectLimitingFactor \/ GetRecommendation

SpecAdapter == InitAdapter /\ [][NextAdapter]_vars

(***************************************************************************)
(* The Simulator page.  The recompute effect runs after a render whose     *)
(* dependency array differs from the one of its last run; effectDeps is    *)
(* that array, empty before the first run.  Each slider moves between two  *)
(* positions, and the graph grows to at most MaxGraphPoints points before  *)
(* a time-lapse run.  plantHealth is in SCALE units of a health point and  *)
(* the rate of a graph point in SCALE units.                               *)
(***************************************************************************)
InitPage ==
  /\ PageIdle
  /\ RateIdle /\ LimitIdle /\ ValidateIdle /\ SimIdle /\ Sim2Idle
  /\ CompareIdle /\ AnalyzeIdle /\ CallIdle
  /\ AdapterIdle /\ LapseIdle

\* the dependency array of the current render
CurrentDeps ==
  <<pageInputs.light, pageInputs.co2, pageInputs.temperature, Len(graphData)>>

RecomputeEffect ==
  /\ effectDeps # CurrentDeps
  /\ Len(graphData) < MaxGraphPoints
  /\ LET light == pageInputs.light
         co2 == pageInputs.co2
         temperature == pageInputs.temperature
         rate == calculatePhotosynthesisRate(light, co2, temperature).rate
         factor == detectLimitingFactor(light, co2, temperature)
         recommendation == getRecommendation(factor, light, co2, temperature)
         temperaturePenalty ==
           IF temperature < 15 \/ temperature > 35 THEN 15 * SCALE
           ELSE IF temperature < 18 \/ temperature > 30 THEN 8 * SCALE
           ELSE 0
         lightPenalty == IF light < 200 THEN 10 * SCALE ELSE 0
         co2Penalty == IF co2 < 250 THEN 8 * SCALE ELSE 0
         healthAdjustment ==
           rate * 30 - temperaturePenalty - lightPenalty - co2Penalty
         newHealth == Max2(0, Min2(100 * SCALE, 70 * SCALE + healthAdjustment))
         currentTime ==
           IF Len(graphData) > 0
           THEN graphData[Len(graphData)].time + 1
           ELSE 0
     IN  /\ computed' = [photosynthesisRate |-> rate,
                         limitingFactor |-> factor,
                         recommendationText |-> recommendation,
                         plantHealth |-> newHealth]
         /\ graphData' =
              Append(graphData, [time |-> currentTime, rate |-> rate])
  /\ effectDeps' = CurrentDeps
  /\ UNCHANGED <<pageInputs, adapterVars, lapseVars, rateVars, limitVars,
                 validateVars, simVars, sim2Vars, compareVars, analyzeVars,
                 callVars>>

\* setLight, setCo2 or setTemperature with a value other than the current
SetInput ==
  /\ LET sliders ==
           [light |-> {400, 800}, co2 |-> {400, 600}, temperature |-> {25, 35}]
     IN  \E f \in FactorNames : \E v \in sliders[f] :
           /\ v # pageInputs[f]
           /\ pageInputs' = [pageInputs EXCEPT ![f] = v]
  /\ UNCHANGED <<computed, graphData, effectDeps, adapterVars, lapseVars,
                 rateVars, limitVars, validateVars, simVars, sim2Vars,
                 compareVars, analyzeVars, callVars>>

HandleTimeLapseSimulation ==
  /\ Len(graphData) <= MaxGraphPoints
  /\ LET initialState == pageInputs
         simData == runTimeLapseSimulation(initialState, 30)
         startTime ==
           IF Len(graphData) > 0
           THEN graphData[Len(graphData)].time + 1
           ELSE 0
         newData == Simulator_newData(simData, startTime)
     IN  graphData' = graphData \o newData
  /\ UNCHANGED <<pageInputs, computed, effectDeps, adapterVars, lapseVars,
                 rateVars, limitVars, validateVars, simVars, sim2Vars,
                 compareVars, analyzeVars, callVars>>

HandleResetGraph ==
  /\ graphData' = <<>>
  /\ UNCHANGED <<pageInputs, computed, effectDeps, adapterVars, lapseVars,
                 rateVars, limitVars, validateVars, simVars, sim2Vars,
                 compareVars, analyzeVars, callVars>>

NextPage ==
  \/ RecomputeEffect
  \/ SetInput
  \/ HandleTimeLapseSimulation
  \/ HandleResetGraph

SpecPage == InitPage /\ [][NextPage]_vars

(***************************************************************************)
(* The TimeLapse component.  A step is a handler (or a timer tick, or a    *)
(* change of a prop) together with the effects that run after the render   *)
(* it causes: the one that regenerates the projection and, when active,    *)
(* resets the playback, and the one that clears the timer and, when        *)
(* playing and active, sets a new one.  interval tells whether a timer is  *)
(* set: after the playback effect, exactly when isPlaying && active.       *)
(***************************************************************************)
LapseConditions ==
  { OPTIMAL_VALUES,
    [light |-> 800, co2 |-> 200, temperature |-> 25],
    [light |-> 0, co2 |-> 400, temperature |-> 25] }

InitLapse ==
  /\ active = FALSE
  /\ environmentalFactors \in LapseConditions
  /\ timeScale = 10
  /\ isPlaying = FALSE
  /\ currentDay = 0
  /\ simulationData = <<>>
  /\ interval = FALSE
  /\ RateIdle /\ LimitIdle /\ ValidateIdle /\ SimIdle /\ Sim2Idle
  /\ CompareIdle /\ AnalyzeIdle /\ CallIdle
  /\ AdapterIdle /\ PageIdle

\* onToggle(!active) in the parent
ToggleActive ==
  /\ active' = ~active
  /\ IF active'
     THEN /\ simulationData' = generateTimelapseData(environmentalFactors)
          /\ currentDay' = 0
          /\ isPlaying' = FALSE
     ELSE UNCHANGED <<simulationData, currentDay, isPlaying>>
  /\ interval' = (isPlaying' /\ active')
  /\ UNCHANGED <<environmentalFactors, timeScale, adapterVars, pageVars,
                 rateVars, limitVars, validateVars, simVars, sim2Vars,
                 compareVars, analyzeVars, callVars>>

\* the parent passes new environmentalFactors
ChangeEnvironment ==
  /\ \E e \in LapseConditions :
       /\ e # environmentalFactors
       /\ environmentalFactors' = e
  /\ IF active
     THEN /\ simulationData' = generateTimelapseData(environmentalFactors')
          /\ currentDay' = 0
          /\ isPlaying' = FALSE
     ELSE UNCHANGED <<simulationData, currentDay, isPlaying>>
  /\ interval' = (isPlaying' /\ active)
  /\ UNCHANGED <<active, timeScale, adapterVars, pageVars,
                 rateVars, limitVars, validateVars, simVars, sim2Vars,
                 compareVars, analyzeVars, callVars>>

\* the Play / Pause button, rendered while active
ClickPlay ==
  /\ active
  /\ isPlaying' = ~isPlaying
  /\ interval' = (isPlaying' /\ active)
  /\ UNCHANGED <<active, environmentalFactors, timeScale, currentDay,
                 simulationData, adapterVars, pageVars,
                 rateVars, limitVars, validateVars, simVars, sim2Vars,
                 compareVars, analyzeVars, callVars>>

\* the Reset button, rendered while active
ClickReset ==
  /\ active
  /\ isPlaying' = FALSE
  /\ currentDay' = 0
  /\ interval' = (isPlaying' /\ active)
  /\ UNCHANGED <<active, environmentalFactors, timeScale,
                 simulationData, adapterVars, pageVars,
                 rateVars, limitVars, validateVars, simVars, sim2Vars,
                 compareVars, analyzeVars, callVars>>

\* the speed selector (0.5x, 1x, 2x, 5x; timeScale is in tenths), rendered
\* while active; the timer is set anew
SelectSpeed ==
  /\ active
  /\ \E s \in {5, 10, 20, 50} :
       /\ s # timeScale
       /\ timeScale' = s
  /\ interval' = (isPlaying /\ active)
  /\ UNCHANGED <<active, environmentalFactors, isPlaying, currentDay,
                 simulationData, adapterVars, pageVars,
                 rateVars, limitVars, validateVars, simVars, sim2Vars,
                 compareVars, analyzeVars, callVars>>

\* the callback of the timer
Tick ==
  /\ interval
  /\ currentDay' = TimeLapse_nextDay(currentDay)
  /\ isPlaying' = IF currentDay >= 29 THEN FALSE ELSE isPlaying
  /\ interval' = (isPlaying' /\ active)
  /\ UNCHANGED <<active, environmentalFactors, timeScale,
                 simulationData, adapterVars, pageVars,
                 rateVars, limitVars, validateVars, simVars, sim2Vars,
                 compareVars, analyzeVars, callVars>>

NextLapse ==
  \/ ToggleActive
  \/ ChangeEnvironment
  \/ ClickPlay
  \/ ClickReset
  \/ SelectSpeed
  \/ Tick

SpecLapse == InitLapse /\ [][NextLapse]_vars

(***************************************************************************)
(* Properties of the rate calculator (checked under SpecRate).             *)
(***************************************************************************)
Evaluated == changedFactor # "pending"

\* the last step raised raw input f and left the other two alone
Increased(f) == changedFactor = f /\ conditions[f] > prevConditions[f]

\* C1: for every triple of raw inputs, calculatePhotosynthesisRate returns
\* three normalized factors in [0,1] and a rate equal to their minimum: the
\* rate is one of the three returned factors and none of them is below it.
C1_RateIsMinOfUnitFactors ==
  Evaluated =>
    /\ \A f \in FactorNames :
         photoResult.factors[f] >= 0 /\ photoResult.factors[f] <= SCALE
    /\ \E f \in FactorNames : photoResult.rate = photoResult.factors[f]
    /\ \A f \in FactorNames : photoResult.rate <= photoResult.factors[f]

\* C1 witness: an evaluation that returned three different positive factors,
\* co2 the lowest, and that factor as the rate
C1_Witness ==
  /\ Evaluated
  /\ photoResult.factors.light > photoResult.factors.temperature
  /\ photoResult.factors.temperature > photoResult.factors.co2
  /\ photoResult.factors.co2 > 0
  /\ photoResult.rate = photoResult.factors.co2

\* C5 as stated: raising the raw value of any factor whose normalized value
\* is above the current minimum leaves the rate unchanged.
C5_RaisingNonMinimumKeepsRate ==
  \A f \in FactorNames :
    (Increased(f) /\ prevResult.factors[f] > prevResult.rate)
      => photoResult.rate = prevResult.rate

\* C5 amended: raising raw light or co2 whose normalized value is above the
\* current minimum leaves the rate unchanged; raising such a temperature
\* leaves it unchanged exactly when the new normalized temperature is not
\* below that minimum (the bell curve falls again above the optimum).
C5_RaisingNonMinimumLightOrCO2KeepsRate ==
  /\ \A f \in {"light", "co2"} :
       (Increased(f) /\ prevResult.factors[f] > prevResult.rate)
         => photoResult.rate = prevResult.rate
  /\ (Increased("temperature") /\ prevResult.factors.temperature > prevResult.rate)
       => ((photoResult.rate = prevResult.rate)
             <=> (photoResult.factors.temperature >= prevResult.rate))

\* C5 witness: co2 was above the minimum (light), was raised, its normalized
\* value rose, and the rate stayed at the light factor
C5_Witness ==
  /\ Increased("co2")
  /\ prevResult.factors.co2 > prevResult.rate
  /\ photoResult.factors.co2 > prevResult.factors.co2
  /\ photoResult.rate = prevResult.rate
  /\ photoResult.rate = photoResult.factors.light
  /\ photoResult.rate > 0

\* C6 as stated: when factor f alone is the minimum, its raw value lies in
\* the factor's domain (not a clamped negative), it is raised toward the
\* value at which it would meet the next-lowest factor (for temperature:
\* toward the optimum, not past it) and f is still the minimum afterwards,
\* then the rate has strictly increased.
C6_RaisingLimitingFactorRaisesRate ==
  \A f \in FactorNames :
    ( /\ Increased(f)
      /\ prevConditions[f] >= 0
      /\ (f = "temperature" => conditions[f] <= TEMP_RANGE.optimal)
      /\ \A g \in FactorNames \ {f} :
           /\ prevResult.factors[f] < prevResult.factors[g]
           /\ photoResult.factors[f] <= photoResult.factors[g] )
      => photoResult.rate > prevResult.rate

\* C19: for a temperature at or below 0 or at or above 45 the normalized
\* temperature factor is pinned to 0.05; it is never exactly 0 for any
\* temperature, so a rate of exactly 0 is caused only by light or co2: one
\* of their factors is 0, its raw value being 0 or less.
C19_TemperatureFloorNeverZeroesRate ==
  Evaluated =>
    /\ (conditions.temperature <= 0 \/ conditions.temperature >= 45)
         => photoResult.factors.temperature = (5 * SCALE) \div 100
    /\ photoResult.factors.temperature > 0
    /\ photoResult.rate = 0
         => \/ photoResult.factors.light = 0 /\ conditions.light <= 0
            \/ photoResult.factors.co2 = 0 /\ conditions.co2 <= 0

\* C19 witness: the temperature was raised beyond 45 with light and co2
\* positive; the temperature factor is 0.05 and it is the rate
C19_Witness ==
  /\ Increased("temperature")
  /\ conditions.temperature > 45
  /\ conditions.light > 0 /\ conditions.co2 > 0
  /\ photoResult.factors.temperature = (5 * SCALE) \div 100
  /\ photoResult.rate = photoResult.factors.temperature

(***************************************************************************)
(* Properties of the limiting-factor analyzer (checked under SpecLimiting) *)
(***************************************************************************)
Identified == limiting.limitingFactor # "pending"

\* the least of the three normalized factors handed to the analyzer
LeastFactor ==
  CHOOSE m \in {normalizedFactors[f] : f \in FactorNames} :
    \A f \in FactorNames : m <= normalizedFactors[f]

\* the factors that are equal to the least
AtMinimum == {f \in FactorNames : normalizedFactors[f] = LeastFactor}

\* C2 as stated: when two or all three normalized factors equal the
\* minimum, identifyLimitingFactor names temperature if it is among them,
\* else light (a light / co2 tie).
C2_TieOrderTemperatureLightCO2 ==
  (Identified /\ Cardinality(AtMinimum) >= 2) =>
    limiting.limitingFactor =
      IF "temperature" \in AtMinimum THEN "temperature" ELSE "light"

\* C3: severity depends on the minimum normalized value m alone: severe when
\* m < 0.3, moderate when 0.3 <= m < 0.6, mild when m >= 0.6.
C3_SeverityBuckets ==
  Identified =>
    /\ (limiting.severity = "severe") <=> (10 * LeastFactor < 3 * SCALE)
    /\ (limiting.severity = "moderate")
         <=> (10 * LeastFactor >= 3 * SCALE /\ 10 * LeastFactor < 6 * SCALE)
    /\ (limiting.severity = "mild") <=> (10 * LeastFactor >= 6 * SCALE)

\* C3 witness: a report for a minimum of exactly 0.3, held by co2 alone,
\* classified moderate
C3_Witness ==
  /\ Identified
  /\ 10 * normalizedFactors.co2 = 3 * SCALE
  /\ AtMinimum = {"co2"}
  /\ limiting.severity = "moderate"

\* C4: the report's value is the minimum of the three factors, and the
\* factor it names has that minimum as its normalized value.
C4_ValueAndNamedFactorAreMinimum ==
  Identified =>
    /\ limiting.value = LeastFactor
    /\ limiting.limitingFactor \in FactorNames
    /\ normalizedFactors[limiting.limitingFactor] = LeastFactor

\* C4 witness: temperature alone is the minimum, below light below co2, and
\* is the factor named
C4_Witness ==
  /\ Identified
  /\ normalizedFactors.temperature < normalizedFactors.light
  /\ normalizedFactors.light < normalizedFactors.co2
  /\ limiting.limitingFactor = "temperature"
  /\ limiting.value = normalizedFactors.temperature

(***************************************************************************)
(* Properties of validateChange (checked under SpecValidate).              *)
(***************************************************************************)
Validated == validateResult.reason # "pending"

\* C9: validateChange returns willImprove = false whenever the factor to
\* change is not the current limiting factor, whatever the proposed value.
C9_NonLimitingFactorNeverImproves ==
  (Validated /\ validateArgs.factorToChange # validateArgs.currentLimitingFactor)
    => validateResult.willImprove = FALSE

\* C9 witness: co2 was proposed to be raised above its current value while
\* light was the limiting factor, and the answer was false
C9_Witness ==
  /\ Validated
  /\ validateArgs.factorToChange = "co2"
  /\ validateArgs.currentLimitingFactor = "light"
  /\ validateArgs.proposedValue > validateArgs.currentValues.co2
  /\ validateResult.willImprove = FALSE

\* the square of the distance of a temperature from the optimum 25
DistanceSq(t) == (t - 25) * (t - 25)

\* C10: with temperature both the factor to change and the limiting factor,
\* willImprove is true exactly when the proposed temperature is strictly
\* closer to 25 than the current one.
C10_TemperatureImprovesIffCloser ==
  ( /\ Validated
    /\ validateArgs.factorToChange = "temperature"
    /\ validateArgs.currentLimitingFactor = "temperature" )
    => (validateResult.willImprove = TRUE
          <=> DistanceSq(validateArgs.proposedValue)
                < DistanceSq(validateArgs.currentValues.temperature))

\* C10 witness: a proposed temperature lower than the current one and
\* closer to 25 was answered true
C10_Witness ==
  /\ Validated
  /\ validateArgs.factorToChange = "temperature"
  /\ validateArgs.currentLimitingFactor = "temperature"
  /\ validateArgs.proposedValue < validateArgs.currentValues.temperature
  /\ validateArgs.proposedValue > 25
  /\ validateResult.willImprove = TRUE

\* C11: with light or co2 both the factor to change and the limiting factor,
\* willImprove is true exactly when the proposed value is strictly greater
\* than the current raw value of that factor; an equal or smaller proposed
\* value gives false.
C11_LightOrCO2ImprovesIffGreater ==
  ( /\ Validated
    /\ validateArgs.factorToChange \in {"light", "co2"}
    /\ validateArgs.currentLimitingFactor = validateArgs.factorToChange )
    => (validateResult.willImprove = TRUE
          <=> validateArgs.proposedValue
                > validateArgs.currentValues[validateArgs.factorToChange])

\* C11 witness: co2, the limiting factor, was proposed at its current value
\* and the answer was false
C11_Witness ==
  /\ Validated
  /\ validateArgs.factorToChange = "co2"
  /\ validateArgs.currentLimitingFactor = "co2"
  /\ validateArgs.proposedValue = validateArgs.currentValues.co2
  /\ validateResult.willImprove = FALSE

\* the rate that calculatePhotosynthesisRate returns for raw values cv
RateOf(cv) == calculatePhotosynthesisRate(cv.light, cv.co2, cv.temperature).rate

\* the factor that identifyLimitingFactor names for raw values cv
LimitingOf(cv) ==
  identifyLimitingFactor(
    calculatePhotosynthesisRate(cv.light, cv.co2, cv.temperature).factors
  ).limitingFactor

\* the current values with the proposed value in place of the factor
ProposedValues ==
  [validateArgs.currentValues EXCEPT
     ![validateArgs.factorToChange] = validateArgs.proposedValue]

\* C27: whenever validateChange returns willImprove = true for a change to
\* the factor that is limiting for the current values, the rate with the
\* proposed value substituted is not lower than the rate for the current
\* values, for every current and proposed value, temperatures at or beyond
\* 0 and 45 and non-positive light or co2 included.
C27_ApprovedChangeDoesNotLowerRate ==
  ( /\ Validated
    /\ validateArgs.factorToChange = validateArgs.currentLimitingFactor
    /\ validateArgs.currentLimitingFactor = LimitingOf(validateArgs.currentValues)
    /\ validateResult.willImprove = TRUE )
    => RateOf(ProposedValues) >= RateOf(validateArgs.currentValues)

(***************************************************************************)
(* Properties of the growth simulator (checked under SpecGrowth).          *)
(***************************************************************************)
\* the records returned so far carry day = 1, 2, ... in order
DaysInOrder == \A i \in 1..Len(results) : results[i].day = i

\* C7: a call simulateGrowth(factors, n, B0) with n >= 0 terminates and
\* returns exactly n records, in order, with day = 1 .. n (none for n = 0):
\* while the loop runs, day <= n + 1 and day - 1 records have been pushed;
\* every step of the loop either advances day by one or returns; and the
\* sequence returned has n records.
C7_SimulateGrowthReturnsDayRecords ==
  /\ [](simArgs.fn = "simulateGrowth" =>
          /\ (pc = "loop" =>
                /\ day \in 1..(simArgs.days + 1)
                /\ Len(results) = day - 1
                /\ DaysInOrder)
          /\ (pc = "done" => Len(results) = simArgs.days /\ DaysInOrder))
  /\ [][(simArgs.fn = "simulateGrowth" /\ pc = "loop")
          => (pc' = "done" \/ (pc' = "loop" /\ day' = day + 1))]_vars

\* C7 witness: simulateGrowth has returned MaxDays records
C7_Witness ==
  /\ simArgs.fn = "simulateGrowth"
  /\ pc = "done"
  /\ simArgs.days = MaxDays
  /\ Len(results) = MaxDays
  /\ results[MaxDays].day = MaxDays

\* C8: for a non-negative initial biomass the carried biomass and the
\* biomass of every record are never negative, in both simulators.
C8_BiomassNeverNegative ==
  /\ cumulativeGrowth >= 0
  /\ \A i \in 1..Len(results) : results[i].biomass >= 0

\* C8 witness: a run of MaxDays days that accumulated stress and whose
\* carried biomass fell below the positive initial biomass
C8_Witness ==
  /\ pc = "done"
  /\ Len(results) = MaxDays
  /\ simArgs.initialBiomass > 0
  /\ cumulativeStress > 0
  /\ cumulativeGrowth < simArgs.initialBiomass
  /\ results[MaxDays].biomass >= 0

\* C14: in a run of simulateGrowth held at the reference optimum (light 800,
\* co2 400, temperature 25) on every day, the accumulated stress is 0 on
\* every recorded day and the daily growth comes to the reference maximum of
\* 5% per day: the rate of the last day is within 0.05 of 1.
C14_OptimumHasNoStressAndFullRate ==
  ( /\ pc = "done"
    /\ simArgs.fn = "simulateGrowth"
    /\ simArgs.conditions = OPTIMAL_VALUES
    /\ simArgs.days >= 1 )
    => /\ \A i \in 1..Len(results) : results[i].stress = 0
       /\ results[Len(results)].rate >= 950

Analyzed == pc = "analyzed" /\ analysis.returned = "object"

\* the number of days on which factor f was the limiting one
DayCount(f) ==
  Cardinality({i \in 1..Len(results) : results[i].limitingFactor = f})

\* the first day on which factor f was the limiting one (f has occurred)
FirstDay(f) ==
  CHOOSE i \in 1..Len(results) :
    /\ results[i].limitingFactor = f
    /\ \A j \in 1..(i - 1) : results[j].limitingFactor # f

\* C17: the mostCommonLimitingFactor reported by analyzeGrowthEfficiency is
\* a factor with the highest day count in the trajectory, and among the
\* factors with that count it is the one that occurs first.
C17_MostCommonLimitingFactor ==
  Analyzed =>
    LET m == analysis.mostCommonLimitingFactor
    IN  /\ DayCount(m) >= 1
        /\ \A f \in FactorNames : DayCount(f) <= DayCount(m)
        /\ \A f \in FactorNames :
             (f # m /\ DayCount(f) = DayCount(m)) => FirstDay(m) < FirstDay(f)

\* C17 witness: each of the three factors was limiting on one of three
\* days, co2 on the first, and co2 was reported
C17_Witness ==
  /\ Analyzed
  /\ Len(results) = 3
  /\ \A f \in FactorNames : DayCount(f) = 1
  /\ results[1].limitingFactor = "co2"
  /\ analysis.mostCommonLimitingFactor = "co2"

\* C26: for a trajectory produced by simulateGrowth(factors, days >= 1, B0),
\* analyzeGrowthEfficiency reports initialBiomass equal to B0 and totalGrowth
\* equal to the final recorded biomass minus B0, whether or not day 1 was a
\* day of stress.
C26_AnalysisReportsInitialBiomass ==
  (Analyzed /\ simArgs.fn = "simulateGrowth")
    => /\ analysis.initialBiomass
            = RoundDiv(simArgs.initialBiomass, SCALE \div 100)
       /\ analysis.totalGrowth
            = results[Len(results)].biomass
                - RoundDiv(simArgs.initialBiomass, SCALE \div 100)

\* the conditions of day d of the running call and the rate they give
DayConditions(d) ==
  IF simArgs.fn = "simulateGrowth" THEN simArgs.conditions
  ELSE simArgs.conditionGenerator[d]

DayRate(d) ==
  calculatePhotosynthesisRate(DayConditions(d).light, DayConditions(d).co2,
                              DayConditions(d).temperature).rate

\* a pass of the day loop is being taken
DayPasses == pc = "loop" /\ day' = day + 1

\* C22: in simulateGrowth and simulateVariableConditions the stress
\* accumulator starts at 0 and is never negative; a day with rate < 0.4 adds
\* exactly 0.4 - rate to it; a day with rate >= 0.4 makes it
\* max(0, stress - 0.1), which is lower than before unless it was 0 already,
\* so that under good days it reaches 0 after finitely many days.
C22_StressAccumulator ==
  /\ [](pc # "call" => cumulativeStress >= 0)
  /\ [][pc = "call" => cumulativeStress' = 0]_vars
  /\ [][DayPasses =>
          IF 10 * DayRate(day) < 4 * SCALE
          THEN cumulativeStress'
                 = cumulativeStress + ((4 * SCALE) \div 10 - DayRate(day))
          ELSE /\ cumulativeStress'
                    = Max2(0, cumulativeStress - SCALE \div 10)
               /\ cumulativeStress > 0 => cumulativeStress' < cumulativeStress
       ]_vars

\* C22 witness: three days were simulated, the first of them with a rate
\* below 0.4 and stress recorded, the second with a rate of at least 0.4
\* that brought the stress back to 0, where it stayed on the third
C22_Witness ==
  /\ pc = "done"
  /\ Len(results) = 3
  /\ results[1].rate < 400 /\ results[1].stress > 0
  /\ results[2].rate >= 400 /\ results[2].stress = 0
  /\ results[3].rate >= 400 /\ results[3].stress = 0
  /\ cumulativeStress = 0

\* the biomass of day 1 with the day's gain added, before any penalty
FirstDayGrown ==
  simArgs.initialBiomass
    + MulDiv(MulDiv(simArgs.initialBiomass, DayRate(1) * 5, SCALE), 1, 100)

\* the penalty p = min(stress * 0.02, 0.30) of the stress carried now
PenaltyFraction ==
  Min2(MulDiv(cumulativeStress, 2, 100), (3 * SCALE) \div 10)

\* C23: on a day with rate < 0.4, after the day's gain has been added, the
\* biomass is reduced by the fraction p of itself, p = min(stress * 0.02,
\* 0.30) with the stress already updated for the day: the fraction removed
\* in the day is p itself, at most 30%.  Stated for the first day of a call.
C23_PenaltyRemovesFractionP ==
  (pc = "loop" /\ day = 2 /\ 10 * DayRate(1) < 4 * SCALE)
    => /\ 10 * PenaltyFraction <= 3 * SCALE
       /\ cumulativeGrowth
            = FirstDayGrown - MulDiv(FirstDayGrown, PenaltyFraction, SCALE)

\* C30: in simulateGrowth and simulateVariableConditions, for a positive
\* initial biomass, the carried biomass decreases from one day to the next
\* only on a day whose rate is below 0.4; on a day with rate >= 0.4 the
\* biomass does not decrease, the stress does not increase, the biomass
\* grows by exactly previous biomass * rate * 0.05, and the recorded
\* dailyGain is that gain rounded.
C30_BiomassDecreasesOnlyUnderStress ==
  [][(DayPasses /\ simArgs.initialBiomass > 0) =>
       LET gain == MulDiv(MulDiv(cumulativeGrowth, DayRate(day) * 5, SCALE),
                          1, 100)
       IN  /\ cumulativeGrowth' < cumulativeGrowth
                => 10 * DayRate(day) < 4 * SCALE
           /\ 10 * DayRate(day) >= 4 * SCALE
                => /\ cumulativeGrowth' >= cumulativeGrowth
                   /\ cumulativeStress' <= cumulativeStress
                   /\ cumulativeGrowth' = cumulativeGrowth + gain
                   /\ results'[day].dailyGain = RoundDiv(gain, SCALE \div 100)
    ]_vars

\* C30 witness: a first day with rate >= 0.4 on which the biomass grew, then
\* a day with rate < 0.4 on which it fell, then a day with rate >= 0.4, after
\* stress, on which it grew again
C30_Witness ==
  /\ pc = "done"
  /\ simArgs.initialBiomass > 0
  /\ Len(results) = 3
  /\ results[1].rate >= 400
  /\ results[1].biomass > RoundDiv(simArgs.initialBiomass, SCALE \div 100)
  /\ results[2].rate < 400 /\ results[2].biomass < results[1].biomass
  /\ results[3].rate >= 400 /\ results[3].biomass > results[2].biomass
  /\ results[3].stress < results[2].stress

(***************************************************************************)
(* Properties of two calls in progress together (checked under SpecRuns).  *)
(***************************************************************************)
\* the two calls have identical arguments
SameCall == simArgs2 = simArgs

CommonFields(r) ==
  [day |-> r.day, rate |-> r.rate, biomass |-> r.biomass,
   dailyGain |-> r.dailyGain, limitingFactor |-> r.limitingFactor,
   stress |-> r.stress, efficiency |-> r.efficiency]

\* the second call is simulateVariableConditions with a generator that
\* returns, on every day, the conditions of the first call, a call of
\* simulateGrowth with the same days and initial biomass
ConstantRefinement ==
  /\ simArgs.fn = "simulateGrowth"
  /\ simArgs2.fn = "simulateVariableConditions"
  /\ \A d \in 1..simArgs2.days :
       simArgs2.conditionGenerator[d] = simArgs.conditions
  /\ simArgs2.days = simArgs.days
  /\ simArgs2.initialBiomass = simArgs.initialBiomass

\* C16: for a generator that returns the same F on every day,
\* simulateVariableConditions(generator, days, B0) produces, record by
\* record, the same day, rate, biomass, dailyGain, limitingFactor, stress
\* and efficiency as simulateGrowth(F, days, B0).
C16_ConstantGeneratorRefinesSimulateGrowth ==
  (ConstantRefinement /\ pc = "done" /\ pc2 = "done")
    => /\ Len(results2) = Len(results)
       /\ \A i \in 1..Len(results) :
            CommonFields(results2[i]) = CommonFields(results[i])

\* C16 witness: both calls returned three records of days in darkness, on
\* which stress accumulates and biomass is lost
C16_Witness ==
  /\ ConstantRefinement
  /\ pc = "done" /\ pc2 = "done"
  /\ Len(results2) = 3
  /\ results2[3].stress > results2[1].stress
  /\ results2[3].biomass < results2[1].biomass
  /\ results2[3].conditions = simArgs.conditions

(***************************************************************************)
(* Properties of compareScenarios (checked under SpecCompare).             *)
(***************************************************************************)
Compared == comparison.outcome = "returned"

\* C12: compareScenarios(A, A, days) reports a biomass difference of 0 and
\* names neither scenario as the better one: betterScenario is neither
\* "baseline" nor "alternative".
C12_SameScenarioIsATie ==
  (Compared /\ compareArgs.baseConditions = compareArgs.altConditions)
    => /\ comparison.comparison.biomassDifference = 0
       /\ comparison.comparison.betterScenario \notin {"baseline", "alternative"}

\* the final recorded biomass of a returned trajectory
FinalBiomass(trajectory) == trajectory[Len(trajectory)].biomass

\* C13: for any two factor sets and days >= 1, compareScenarios runs two
\* simulations from the same default initial biomass, reports
\* biomassDifference = alternative final biomass - baseline final biomass,
\* and names as betterScenario the scenario whose final recorded biomass is
\* strictly higher.
C13_BetterScenarioHasStrictlyHigherBiomass ==
  (comparison.outcome # "pending" /\ compareArgs.days >= 1)
    => /\ Compared
       /\ comparison.baseline
            = simulateGrowth(compareArgs.baseConditions, compareArgs.days,
                             DEFAULT_INITIAL_BIOMASS)
       /\ comparison.alternative
            = simulateGrowth(compareArgs.altConditions, compareArgs.days,
                             DEFAULT_INITIAL_BIOMASS)
       /\ comparison.comparison.biomassDifference
            = FinalBiomass(comparison.alternative)
                - FinalBiomass(comparison.baseline)
       /\ comparison.comparison.betterScenario = "alternative"
            => FinalBiomass(comparison.alternative)
                 > FinalBiomass(comparison.baseline)
       /\ comparison.comparison.betterScenario = "baseline"
            => FinalBiomass(comparison.baseline)
                 > FinalBiomass(comparison.alternative)

\* C28: compareScenarios called with days = 0 returns no comparison report:
\* both trajectories are empty, there is no final record, and the call ends
\* in an error when it reads the final biomass; for every days >= 1 it
\* returns a report with both trajectories of that length.
C28_ZeroDaysIsAnError ==
  comparison.outcome # "pending" =>
    /\ compareArgs.days = 0
         => /\ simulateGrowth(compareArgs.baseConditions, 0,
                              DEFAULT_INITIAL_BIOMASS) = <<>>
            /\ simulateGrowth(compareArgs.altConditions, 0,
                              DEFAULT_INITIAL_BIOMASS) = <<>>
            /\ comparison.outcome = "TypeError"
    /\ compareArgs.days >= 1
         => /\ comparison.outcome = "returned"
            /\ Len(comparison.baseline) = compareArgs.days
            /\ Len(comparison.alternative) = compareArgs.days

\* C28 witness: a call with days = 0 and two different scenarios ended in
\* the TypeError
C28_Witness ==
  /\ compareArgs.days = 0
  /\ compareArgs.baseConditions # compareArgs.altConditions
  /\ comparison.outcome = "TypeError"

(***************************************************************************)
(* Properties of analyzeAllFactors (checked under SpecAnalyze).            *)
(***************************************************************************)
FactorsAnalyzed == factorAnalysis.limiting # "pending"

\* the explanations given for temperature: the reason of
\* identifyLimitingFactor in the summary and the explanation of the
\* temperature entry
TemperatureExplanations ==
  {factorAnalysis.summary.reason, factorAnalysis.factors.temperature.explanation}

\* C18: when temperature is the limiting factor, the explanation tells too
\* cold from too hot by the raw temperature relative to the optimum of 25: a
\* raw temperature above the optimum never gets the low-temperature
\* explanation and a raw temperature below the optimum never gets the
\* high-temperature explanation.
C18_ExplanationFollowsRawTemperature ==
  (FactorsAnalyzed /\ factorAnalysis.limiting = "temperature")
    => /\ rawValues.temperature > TEMP_RANGE.optimal
            => "temperature.low" \notin TemperatureExplanations
       /\ rawValues.temperature < TEMP_RANGE.optimal
            => "temperature.high" \notin TemperatureExplanations

(***************************************************************************)
(* Properties of calls with arbitrary values (checked under SpecCall).     *)
(***************************************************************************)
Called == callOutcome.outcome # "pending"

\* one of light, co2 and temperature is not a number
NonNumberArgument ==
  \E f \in FactorNames : callArgs[f].type # "number"

\* C20: a rate calculation, direct or through simulateGrowth, called with a
\* light, co2 or temperature that is not a number fails with a type error:
\* it never returns a result computed from a coerced or NaN value.
C20_NonNumberArgumentIsATypeError ==
  (Called /\ NonNumberArgument) => callOutcome.outcome = "TypeError"

(***************************************************************************)
(* Properties of the adapters (checked under SpecAdapter).                 *)
(***************************************************************************)
Detected == detectedFactor # "pending"

Recommended == recommendationText # "pending"

\* the display name of each internal factor name
DisplayNames ==
  [light |-> "Light", co2 |-> "CO2", temperature |-> "Temperature"]

\* what identifyLimitingFactor names for the normalized factors of the model
NamedByAnalyzer ==
  LET modelResult == 
        calculatePhotosynthesisRate(adapterArgs.light, adapterArgs.co2,
                                    adapterArgs.temperature)
  IN  identifyLimitingFactor(modelResult.factors).limitingFactor

\* C21: for numeric inputs detectLimitingFactor returns one of 'Light',
\* 'CO2' and 'Temperature', never 'None', and the name it returns is the
\* display name of the factor identifyLimitingFactor names for the
\* normalized factors the model computes from the same inputs.
C21_DetectedIsDisplayNameOfLimitingFactor ==
  Detected =>
    /\ detectedFactor \in {"Light", "CO2", "Temperature"}
    /\ NamedByAnalyzer \in FactorNames
    /\ detectedFactor = DisplayNames[NamedByAnalyzer]

\* detectLimitingFactor has returned for inputs whose least factor is co2
C21_Witness ==
  /\ Detected
  /\ NamedByAnalyzer = "co2"
  /\ detectedFactor = "CO2"

\* the recommendations that say the factor is already optimal
AlreadyOptimalTexts ==
  {"Light intensity is already optimal.",
   "CO2 concentration is already optimal.",
   "Temperature is in the optimal range (20-30 C)."}

\* the warnings that say the factor is not the limiting one
NotLimitingWarnings ==
  {"Light is not the limiting factor.",
   "CO2 is not the limiting factor.",
   "Temperature is not the limiting factor."}

\* C24: when generateRecommendation has been called for the factor that
\* identifyLimitingFactor names as limiting for the inputs, the object it
\* returned has a numeric targetValue, its recommendation does not say that
\* the factor is already optimal and its warning does not say that the
\* factor is not the limiting one.
C24_LimitingFactorGetsATarget ==
  (Recommended /\ recommended.limitingFactor = NamedByAnalyzer) =>
    /\ recommended.targetValue.type = "number"
    /\ ~recommended.targetValue.nan
    /\ recommended.recommendation \notin AlreadyOptimalTexts
    /\ recommended.warning \notin NotLimitingWarnings

(***************************************************************************)
(* Properties of the TimeLapse component (checked under SpecLapse).        *)
(***************************************************************************)
\* the timer is running: the component is playing and active
Playing == isPlaying /\ active

\* C25: currentDay always stays within 0..29; a timer is set only while the
\* component is playing and active, and each of its ticks advances
\* currentDay by exactly one, except the tick at day 29, which stops the
\* playback and returns currentDay to 0; while the component is paused or
\* inactive currentDay does not advance (it changes only by being reset to
\* 0).
C25_PlaybackStaysWithinThirtyDays ==
  /\ [](currentDay \in 0..29)
  /\ [](interval => Playing)
  /\ [][Tick => IF currentDay = 29
                THEN currentDay' = 0 /\ ~isPlaying' /\ ~interval'
                ELSE currentDay' = currentDay + 1 /\ isPlaying']_vars
  /\ [][(~Playing /\ currentDay' # currentDay) => currentDay' = 0]_vars

\* the playback has reached the last day of the projection and the timer
\* is still set
C25_Witness ==
  /\ Playing
  /\ interval
  /\ currentDay = 29

(***************************************************************************)
(* Properties of the Simulator page (checked under SpecPage).              *)
(***************************************************************************)
\* the times of the points of the graph increase strictly
TimesIncrease ==
  \A i \in 1..(Len(graphData) - 1) : graphData[i].time < graphData[i + 1].time

\* the recompute effect is due: the dependency array of the current render
\* differs from the one of its last run
EffectDue == effectDeps # CurrentDeps

\* C29: a run of the recompute effect (the only step that changes
\* effectDeps) appends exactly one point to graphData and leaves the page in
\* a state where the effect is not due again, so that graphData stays as it
\* is until the next input change, time-lapse run or reset; and the times of
\* the points of graphData increase strictly.
C29_EffectAppendsOnePointAndSettles ==
  /\ [][effectDeps' # effectDeps =>
          /\ Len(graphData') = Len(graphData) + 1
          /\ ~EffectDue']_vars
  /\ []TimesIncrease

====
